---- MODULE Spec2Model ----
(***************************************************************************)
(* Knosys -> Confluence migration (lekhasreek/optus-migration).            *)
(*                                                                         *)
(* The model follows the two Forge resolvers of the repository: the        *)
(* pipeline of src/unnamed/part_000 (tree utilities, markup extractor,     *)
(* link rewriters, shared-content hubs, placeholder pages) and the         *)
(* resolver of src/src/index.js (item links resolved through the mapping   *)
(* kept in Forge storage).  Pure functions are operators; a handler is a   *)
(* state machine with one step per request it awaits.                      *)
(*                                                                         *)
(* A JavaScript string holding markup is a sequence of tokens; plain       *)
(* strings (ids, titles, keys) are TLA+ strings, "" standing for an absent *)
(* or empty value (the code tests them with || and !).                     *)
(***************************************************************************)
EXTENDS Naturals, Sequences, FiniteSets, TLC

(***************************************************************************)
(* Bounds of the model.                                                    *)
(***************************************************************************)
\* migration requests issued, one after the other, in a behaviour
MaxReqs == 2
\* children of the root of a tree a utility is applied to on its own
MaxKids == 2
\* fields of the node a utility is applied to on its own
MaxFields == 3

(***************************************************************************)
(* Markup tokens.  k is the construct, a/b/c its parts:                    *)
(*   text      a = the characters                                          *)
(*   a         <a data-itemid="a">b</a>                                    *)
(*   hashlink  <a href="#a">b</a>                                          *)
(*   pagelink  <ac:link><ri:page ri:content-title="a" ri:space-key="b" />  *)
(*             <ac:plain-text-link-body><![CDATA[c]]>...</ac:link>         *)
(*   urllink   <ac:link><ri:url ri:value="a" />...<![CDATA[c]]>...         *)
(*   anchorlink <ac:link><ri:anchor ri:value="a"/>...<![CDATA[c]]>...      *)
(*   anchor    the anchor macro named a                                    *)
(*   include   the include macro for page b of space a                     *)
(*   weblink   <a href="/wiki/spaces/a/pages/b">c</a>                      *)
(*   redirect  <a href="/create?itemId=a&spaceId=b&title=c">c</a>          *)
(*   image     the image macro for attachment a                            *)
(*   tag       a literal tag a (<div>, </div>, the expand macro's parts)   *)
(***************************************************************************)
Tok(k, a, b, c) == [k |-> k, a |-> a, b |-> b, c |-> c]
Text(s) == IF s = "" THEN <<>> ELSE <<Tok("text", s, "", "")>>
Tag(s) == <<Tok("tag", s, "", "")>>
Anchor(itemid, text) == <<Tok("a", itemid, text, "")>>

\* String(value) of a field value used as a plain string (a title, a URL):
\* the characters of its first chunk.
Str(v) == IF v = <<>> THEN "" ELSE IF v[1].k = "a" THEN v[1].b ELSE v[1].a

\* `<div>${htmlValue}</div>`
Div(h) == Tag("<div>") \o h \o Tag("</div>")

PlaceholderMarker == Tag("<p>") \o Text("to be migrated") \o Tag("</p>")
NoContent == Tag("<p>") \o Text("(no content extracted)") \o Tag("</p>")
PageTopAnchor == <<Tok("anchor", "PageTop", "", "")>>
DefaultTitle == "Migrated page from Knosys"
BlankImage == "2e6d82ef-524c-ea11-a960-000d3ad095fb.png"
BlankImageBase == "2e6d82ef-524c-ea11-a960-000d3ad095fb"

(***************************************************************************)
(* Document nodes.  detail = FALSE: the object has no detail member;       *)
(* hasFields = FALSE: fields is not an array.                              *)
(***************************************************************************)
Field(name, value) == [name |-> name, value |-> value]
Node(id, title, type, hasFields, fields, children) ==
  [detail |-> TRUE, id |-> id, title |-> title, itemType |-> type,
   hasFields |-> hasFields, fields |-> fields, children |-> children]
\* an object with no detail, no fields, no children (a payload without json)
BareObject ==
  [detail |-> FALSE, id |-> "", title |-> "", itemType |-> "",
   hasFields |-> FALSE, fields |-> <<>>, children |-> <<>>]

RECURSIVE Concat(_)
Concat(ss) == IF ss = <<>> THEN <<>> ELSE Head(ss) \o Concat(Tail(ss))

\* all nodes of the tree, depth first, parents before children
RECURSIVE PreOrder(_)
PreOrder(node) ==
  <<node>> \o Concat([i \in 1..Len(node.children) |-> PreOrder(node.children[i])])

\* the first element of s satisfying Test, as a sequence of length 0 or 1
FirstWhere(s, Test(_)) ==
  LET idx == {i \in 1..Len(s) : Test(s[i])} IN
  IF idx = {} THEN <<>>
  ELSE <<s[CHOOSE i \in idx : \A j \in idx : i <= j]>>

\* findItemById: the first node in pre-order carrying the id
findItemById(node, id) ==
  LET Hit(n) == n.detail /\ n.id = id IN FirstWhere(PreOrder(node), Hit)

\* findByTitle (local to migrateJsonToPage)
findByTitle(node, title) ==
  LET Hit(n) == n.detail /\ n.title = title IN FirstWhere(PreOrder(node), Hit)

\* an assignment that keeps the value a key already has
MapSetOnce(map, key, value) ==
  [k \in DOMAIN map \cup {key} |-> IF k \in DOMAIN map THEN map[k] ELSE value]

\* map[key] = value
MapSet(map, key, value) ==
  [k \in DOMAIN map \cup {key} |-> IF k = key THEN value ELSE map[k]]

\* buildIdMap(node, map): the node is entered under its id, then the children
\* are visited in order, each with the map the one before it left
RECURSIVE buildIdMapInto(_, _), buildIdMapEach(_, _)
buildIdMapInto(node, map) ==
  buildIdMapEach(node.children,
                 IF node.detail /\ node.id # "" THEN MapSet(map, node.id, node) ELSE map)
buildIdMapEach(children, map) ==
  IF children = <<>> THEN map
  ELSE buildIdMapEach(Tail(children), buildIdMapInto(Head(children), map))

\* buildIdMap(node), map = {}
buildIdMap(node) == buildIdMapInto(node, <<>>)

\* fields.find(f => f.name === name), as a sequence of length 0 or 1
FindField(fields, name) ==
  LET Hit(f) == f.name = name IN FirstWhere(fields, Hit)
FieldValue(fields, name) ==
  LET f == FindField(fields, name) IN IF f = <<>> THEN <<>> ELSE f[1].value

(***************************************************************************)
(* Anchor replacement in the input tree (migrateAnchorsInJson).            *)
(***************************************************************************)
MapTokens(html, F(_)) == Concat([i \in 1..Len(html) |-> F(html[i])])

\* the replace callback of replaceAnchorsWithContent, for one anchor
ReplaceAnchorWithContent(t, idMap) ==
  IF t.k = "a" /\ t.a # "" /\ t.b = "to be migrated" /\ t.a \in DOMAIN idMap
     /\ idMap[t.a].hasFields
  THEN LET fields == idMap[t.a].fields
           docTitle == FindField(fields, "DocumentTitle")
           value == IF docTitle # <<>> THEN Str(docTitle[1].value)
                    ELSE IF fields # <<>> THEN Str(fields[1].value) ELSE ""
       IN Anchor(t.a, value)
  ELSE <<t>>

RECURSIVE replaceAnchorsWithContent(_, _)
replaceAnchorsWithContent(node, idMap) ==
  LET F(t) == ReplaceAnchorWithContent(t, idMap) IN
  [node EXCEPT
     !.fields = [i \in 1..Len(node.fields) |->
                   Field(node.fields[i].name, MapTokens(node.fields[i].value, F))],
     !.children = [i \in 1..Len(node.children) |->
                     replaceAnchorsWithContent(node.children[i], idMap)]]

migrateAnchorsInJson(rootJson) ==
  replaceAnchorsWithContent(rootJson, buildIdMap(rootJson))

(***************************************************************************)
(* Content extraction (extractHtmlFromNode).                               *)
(***************************************************************************)
ExpandMacro(title, body) ==
  Tag("<expand><title>") \o title \o Tag("</title><body>") \o body
    \o Tag("</body></expand>")

\* an extractor that knows no pair: every value but HiddenText's
FieldsHtmlUnpaired(fields) ==
  Concat([i \in 1..Len(fields) |->
            IF fields[i].name = "HiddenText" THEN <<>> ELSE fields[i].value])

\* one node's fields: the LinkText/HiddenText pair as one expand macro, else
\* every value but HiddenText's, in field order
FieldsHtml(fields) ==
  LET Link(f) == f.name = "LinkText" /\ f.value # <<>>
      Hidden(f) == f.name = "HiddenText" /\ f.value # <<>>
      linkTextField == FirstWhere(fields, Link)
      hiddenTextField == FirstWhere(fields, Hidden)
  IN IF linkTextField # <<>> /\ hiddenTextField # <<>>
     THEN ExpandMacro(linkTextField[1].value, hiddenTextField[1].value)
     ELSE Concat([i \in 1..Len(fields) |->
                    IF fields[i].name = "HiddenText" THEN <<>> ELSE fields[i].value])

NodeFieldsHtml(n) == IF n.hasFields THEN FieldsHtml(n.fields) ELSE <<>>

\* an extractor that descends the whole tree
RECURSIVE extractHtmlAllLevels(_)
extractHtmlAllLevels(node) ==
  NodeFieldsHtml(node)
    \o Concat([i \in 1..Len(node.children) |-> extractHtmlAllLevels(node.children[i])])

extractHtmlFromNode(node) ==
  IF node.children # <<>>
  THEN Concat([i \in 1..Len(node.children) |->
         LET child == node.children[i] IN
         IF child.detail /\ child.children # <<>>
         THEN Concat([j \in 1..Len(child.children) |->
                        NodeFieldsHtml(child.children[j])])
         ELSE NodeFieldsHtml(child)])
  ELSE NodeFieldsHtml(node)

(***************************************************************************)
(* src/src/index.js: extraction and item links.                            *)
(***************************************************************************)
\* escapeHtml: &, < and > become entities (the one title of the model that
\* holds any)
escapeHtml(str) == IF str = "R&D" THEN "R&amp;D" ELSE str

\* extractHtmlFromNode of index.js: the title as a heading, Text values as they
\* are, DocumentTitle and ParagraphTitle as headings, then the children (the
\* documents of the model carry no external.information)
RECURSIVE extractHtmlFromNodeIndex(_)
extractHtmlFromNodeIndex(node) ==
  (IF node.detail /\ node.title # ""
   THEN Tag("<h2>") \o Text(escapeHtml(node.title)) \o Tag("</h2>") ELSE <<>>)
  \o (IF node.hasFields
      THEN Concat([i \in 1..Len(node.fields) |->
             LET f == node.fields[i] IN
             IF f.name = "Text" THEN f.value
             ELSE IF f.name \in {"DocumentTitle", "ParagraphTitle"} /\ f.value # <<>>
             THEN Tag("<h3>") \o Text(escapeHtml(Str(f.value))) \o Tag("</h3>")
             ELSE <<>>])
      ELSE <<>>)
  \o Concat([i \in 1..Len(node.children) |-> extractHtmlFromNodeIndex(node.children[i])])

\* rewriteLinksForRedirect: every anchor with a data-itemid points at /create
rewriteLinksForRedirect(html, spaceId) ==
  [i \in 1..Len(html) |->
     LET t == html[i] IN
     IF t.k = "a" /\ t.a # "" THEN Tok("redirect", t.a, spaceId, t.b) ELSE t]

(***************************************************************************)
(* Link rewriting.                                                         *)
(***************************************************************************)
FirstNonEmpty(ss) ==
  LET idx == {i \in 1..Len(ss) : ss[i] # ""} IN
  IF idx = {} THEN "" ELSE ss[CHOOSE i \in idx : \A j \in idx : i <= j]

PageLink(title, spaceKey, anchorText) == <<Tok("pagelink", title, spaceKey, anchorText)>>

\* the replace callback of insertAnchorLinksToPages
InsertAnchorLink(t, data, spaceKey) ==
  LET item == findItemById(data, t.a) IN
  IF t.k = "a" /\ t.a # "" /\ item # <<>> /\ item[1].itemType = "Document"
  THEN PageLink(FirstNonEmpty(<<item[1].title,
                                Str(FieldValue(item[1].fields, "DocumentTitle")),
                                t.b, t.a>>),
                spaceKey, t.b)
  ELSE <<t>>

insertAnchorLinksToPages(html, data, spaceKey) ==
  LET F(t) == InsertAnchorLink(t, data, spaceKey) IN MapTokens(html, F)

\* fixBrokenLinks: <a href="#">yesopt.us...</a> becomes an external link
YesoptTexts == {"yesopt.us/help"}
fixBrokenLinks(html) ==
  LET F(t) == IF t.k = "hashlink" /\ t.a = "" /\ t.b \in YesoptTexts
              THEN <<Tok("extlink", t.b, t.b, "")>> ELSE <<t>>
  IN MapTokens(html, F)

fixExternalLinks(html) == html

\* a callback that links every item anchor, resolved or not
RewriteAnyAnchor(t, data, spaceKey) ==
  IF t.k = "a" /\ t.a # "" THEN PageLink(t.a, spaceKey, t.b) ELSE <<t>>

\* the two replace callbacks of rewriteInternalLinks
RewriteItemAnchor(t, data, spaceKey) ==
  LET item == findItemById(data, t.a) IN
  IF t.k # "a" \/ t.a = "" \/ item = <<>> THEN <<t>>
  ELSE IF item[1].itemType = "Document"
  THEN PageLink(FirstNonEmpty(<<item[1].title,
                                Str(FieldValue(item[1].fields, "DocumentTitle"))>>),
                spaceKey, t.b)
  ELSE IF item[1].itemType = "Link"
          /\ Str(FieldValue(item[1].fields, "URL")) # ""
  THEN <<Tok("urllink", Str(FieldValue(item[1].fields, "URL")), "", t.b)>>
  ELSE <<t>>

RewriteBookmarkAnchor(t) ==
  IF t.k = "hashlink" /\ t.a # "" THEN <<Tok("anchorlink", t.a, "", t.b)>> ELSE <<t>>

rewriteInternalLinks(html, data, spaceKey) ==
  LET F(t) == RewriteItemAnchor(t, data, spaceKey) IN
  MapTokens(MapTokens(html, F), RewriteBookmarkAnchor)

rewriteHiddenLinks(html, data, spaceKey) == rewriteInternalLinks(html, data, spaceKey)

\* insertAnchorMacros: one anchor macro per Bookmark field of the tree, before
\* the first paragraph or heading holding the bookmark text, else in front
Bookmarks(data) ==
  LET all == PreOrder(data) IN
  Concat([i \in 1..Len(all) |->
    Concat([j \in 1..Len(all[i].fields) |->
      IF all[i].fields[j].name = "Bookmark" /\ all[i].fields[j].value # <<>>
      THEN <<Str(all[i].fields[j].value)>> ELSE <<>>])])

BlockOpen == {"<p>", "<h1>", "<h2>", "<h3>"}
InsertAnchorMacro(html, bm) ==
  LET macro == <<Tok("anchor", bm, "", "")>>
      idx == {i \in 1..Len(html) : /\ i + 2 <= Len(html)
                                    /\ html[i].k = "tag" /\ html[i].a \in BlockOpen
                                    /\ html[i+1].k = "text" /\ html[i+1].a = bm
                                    /\ html[i+2].k = "tag"}
  IN IF idx = {} THEN macro \o html
     ELSE LET i == CHOOSE i \in idx : \A j \in idx : i <= j IN
          SubSeq(html, 1, i - 1) \o macro \o SubSeq(html, i, Len(html))

RECURSIVE InsertAll(_, _)
InsertAll(html, bms) ==
  IF bms = <<>> THEN html ELSE InsertAll(InsertAnchorMacro(html, Head(bms)), Tail(bms))

insertAnchorMacros(html, data) == InsertAll(html, Bookmarks(data))

(***************************************************************************)
(* The two DOM stages.  new DOMParser() is inside a try: where the runtime *)
(* has no DOMParser the catch returns the markup as it came (dom = FALSE). *)
(* Where it has one, doc.body.innerHTML re-serialises the markup: an HTML  *)
(* parser ignores the "/" of <ri:page ... /> and reads <![CDATA[..]]> as a *)
(* comment, so a link construct comes back in another spelling.            *)
(***************************************************************************)
DomSpelling(t) ==
  IF t.k \in {"pagelink", "urllink", "anchorlink"}
  THEN <<Tok("domlink", t.a, t.b, t.c)>> ELSE <<t>>
DomSerialize(html) == MapTokens(html, DomSpelling)

convertCheckboxesToTaskList(html, dom) ==
  LET boxes == {i \in 1..Len(html) : html[i].k = "checkbox"}
      done == {i \in boxes : i < Len(html) /\ html[i+1].k = "text"}
      gone == done \cup {i + 1 : i \in done}
               \cup {i \in 1..Len(html) : html[i].k = "tag" /\ html[i].a = "<br>"}
      first == CHOOSE i \in boxes : \A j \in boxes : i <= j
      tasks == Concat([i \in 1..Len(html) |->
                 IF i \in done THEN <<Tok("task", html[i].a, html[i+1].a, "")>>
                 ELSE <<>>])
      taskList == Tag("<ac:task-list>") \o tasks \o Tag("</ac:task-list>")
  IN IF ~dom \/ boxes = {} THEN html
     ELSE DomSerialize(Concat([i \in 1..Len(html) |->
            (IF i = first THEN taskList ELSE <<>>)
              \o (IF i \in gone THEN <<>> ELSE <<html[i]>>)]))

\* colorFormatter as a stage of the pipeline, on markup without style
\* attributes, rgb() colours, empty elements or nested same-tag wrappers
colorFormatter(html, dom) ==
  IF html = <<>> THEN <<>> ELSE IF dom THEN DomSerialize(html) ELSE html

(***************************************************************************)
(* The last two passes of colorFormatter, on the parsed document: a node   *)
(* is a text node (tag "#text", its text "t" or the blank " ") or an       *)
(* element with its childNodes (kids). The passes run over doc.body's      *)
(* descendants; the documents of the model hold no ac: or ri: element, and *)
(* the query for a macro inside an element finds none.                     *)
(***************************************************************************)
DomText(text) == [tag |-> "#text", text |-> text, kids |-> <<>>]
DomElem(tag, kids) == [tag |-> tag, text |-> "", kids |-> kids]
VOID_TAGS == {"br", "img", "input", "hr", "meta", "link"}

\* tag.textContent.trim() is not empty
RECURSIVE HasText(_)
HasText(n) ==
  IF n.tag = "#text" THEN n.text \notin {"", " "}
  ELSE \E i \in DOMAIN n.kids : HasText(n.kids[i])

\* the test of the pass: no text, and every child node a blank text node
IsEmptyTag(tag) ==
  /\ ~HasText(tag)
  /\ \A i \in DOMAIN tag.kids : tag.kids[i].tag = "#text" /\ ~HasText(tag.kids[i])

\* 'Remove empty tags (except void tags)': one pass over the elements in
\* document order; an element with an element child is never removed, so
\* removing its children after it was visited does not bring it back
RECURSIVE removeEmptyTags(_)
removeEmptyTags(childNodes) ==
  Concat([i \in 1..Len(childNodes) |->
    LET tag == childNodes[i] IN
    IF tag.tag = "#text" THEN <<tag>>
    ELSE IF tag.tag \notin VOID_TAGS /\ IsEmptyTag(tag) THEN <<>>
    ELSE <<[tag EXCEPT !.kids = removeEmptyTags(tag.kids)]>>])

\* tag.children: the element children
Children(tag) ==
  LET IsElement(n) == n.tag # "#text" IN SelectSeq(tag.kids, IsElement)

\* one forEach of 'Unwrap nested same tags' at an element and then at the
\* elements below it: the children of a same-tag only child are appended to
\* the element and the child is removed
RECURSIVE UnwrapPass(_)
UnwrapPass(tag) ==
  IF tag.tag = "#text" THEN tag
  ELSE LET children == Children(tag)
           NotInner(n) == n # children[1]
           now == IF Len(children) = 1 /\ children[1].tag = tag.tag
                  THEN SelectSeq(tag.kids, NotInner) \o children[1].kids
                  ELSE tag.kids
       IN [tag EXCEPT !.kids = [i \in DOMAIN now |-> UnwrapPass(now[i])]]

UnwrapPassAll(childNodes) == [i \in DOMAIN childNodes |-> UnwrapPass(childNodes[i])]

\* an unwrapping that stops after one pass
unwrapOnce(childNodes) == [out |-> UnwrapPassAll(childNodes), passes |-> 1]

\* while (changed): pass after pass until one changes nothing; the result and
\* the number of passes made
RECURSIVE unwrapNestedSameTags(_)
unwrapNestedSameTags(childNodes) ==
  LET next == UnwrapPassAll(childNodes) IN
  IF next = childNodes THEN [out |-> childNodes, passes |-> 1]
  ELSE LET rest == unwrapNestedSameTags(next) IN
       [out |-> rest.out, passes |-> rest.passes + 1]

(***************************************************************************)
(* Steps 1-5 and 8 of migrateJsonToPage: the markup of the main page.      *)
(***************************************************************************)
HtmlBody(json, spaceKey, dom) ==
  LET h0 == extractHtmlFromNode(json)
      h1 == IF h0 = <<>> THEN NoContent ELSE h0
      h2 == insertAnchorLinksToPages(h1, json, spaceKey)
      h3 == fixExternalLinks(fixBrokenLinks(h2))
      h4 == rewriteHiddenLinks(rewriteInternalLinks(h3, json, spaceKey), json, spaceKey)
      h5 == insertAnchorMacros(h4, json)
      h6 == convertCheckboxesToTaskList(h5, dom)
  IN colorFormatter(h6, dom)

FinalHtml(htmlBody) == PageTopAnchor \o htmlBody

\* the anchorRefs set: the content titles of the page links of the body, in
\* order of first occurrence
RECURSIVE Dedup(_)
Dedup(s) ==
  IF s = <<>> THEN <<>>
  ELSE LET front == Dedup(SubSeq(s, 1, Len(s) - 1)) IN
       IF \E i \in 1..Len(front) : front[i] = s[Len(s)] THEN front
       ELSE Append(front, s[Len(s)])

AnchorRefs(htmlBody) ==
  Dedup(Concat([i \in 1..Len(htmlBody) |->
    IF htmlBody[i].k = "pagelink" /\ htmlBody[i].a # ""
    THEN <<htmlBody[i].a>> ELSE <<>>]))

(***************************************************************************)
(* processSharedContent, the placeholder loop and the backfill traversal:  *)
(* the calls each issues, in the order the code issues them.               *)
(***************************************************************************)
\* generateImageMacro(`${base}.png`): a file name is its base and extension
generateImageMacro(base) ==
  IF base = BlankImageBase THEN <<>>
  ELSE Tag("<p>") \o <<Tok("image", base, "png", "")>> \o Tag("</p>")

generateIncludeMacro(spaceKey, pageTitle) == <<Tok("include", spaceKey, pageTitle, "")>>

\* the value of the last field called name ("" when there is none)
LastFieldValue(fields, name) ==
  LET idx == {i \in 1..Len(fields) : fields[i].name = name} IN
  IF idx = {} THEN <<>>
  ELSE fields[CHOOSE i \in idx : \A j \in idx : j <= i].value

\* the getOrCreatePage calls of recurse(data.children), hub = the hub space
SharedCall(child) ==
  IF child.itemType = "Image"
  THEN IF child.id # "" /\ child.id # BlankImage
       THEN <<[hub |-> "image",
               title |-> FirstNonEmpty(<<child.title, child.id>>),
               body |-> generateImageMacro(child.id)]>>
       ELSE <<>>
  ELSE IF child.itemType = "SharedParagraph"
  THEN LET titleValue == Str(LastFieldValue(child.fields, "ParagraphTitle"))
           value == LastFieldValue(child.fields, "Text")
       IN IF titleValue # "" /\ value # <<>>
          THEN <<[hub |-> "shared", title |-> titleValue, body |-> value]>>
          ELSE <<>>
  ELSE <<>>

SharedCalls(data) ==
  LET below == SubSeq(PreOrder(data), 2, Len(PreOrder(data))) IN
  Concat([i \in 1..Len(below) |-> SharedCall(below[i])])

\* the macros processSharedContent returns
sharedContentMacros(data, sharedParagraphSpaceKey) ==
  LET calls == SharedCalls(data) IN
  Concat([i \in 1..Len(calls) |->
    IF calls[i].hub = "shared"
    THEN generateIncludeMacro(sharedParagraphSpaceKey, calls[i].title) ELSE <<>>])

\* fields.map(f => f.value).filter(Boolean).join(' ')
RECURSIVE JoinValues(_)
JoinValues(fields) ==
  IF fields = <<>> THEN <<>>
  ELSE LET rest == JoinValues(Tail(fields)) IN
       IF Head(fields).value = <<>> THEN rest
       ELSE IF rest = <<>> THEN Head(fields).value
       ELSE Head(fields).value \o Text(" ") \o rest

\* the descent of updateAnchorPagesOnTraversal and replaceAnchorPlaceholders:
\* to the first child with a non-empty fields list, else the first child
RECURSIVE DeepestChild(_)
DeepestChild(target) ==
  IF target.children = <<>> THEN target
  ELSE LET WithFields(c) == c.hasFields /\ c.fields # <<>>
           pick == FirstWhere(target.children, WithFields)
       IN DeepestChild(IF pick # <<>> THEN pick[1] ELSE target.children[1])

\* the value updateAnchorPagesOnTraversal writes for a node
BackfillValue(node) ==
  IF node.hasFields /\ node.fields # <<>> THEN JoinValues(node.fields)
  ELSE IF node.children # <<>>
  THEN LET target == DeepestChild(node) IN
       IF target.hasFields THEN JoinValues(target.fields) ELSE <<>>
  ELSE <<>>

\* the pages the placeholder loop asks for, one per anchorRef
PlaceholderCall(json, anchor) ==
  LET byId == findItemById(json, anchor)
      node == IF byId # <<>> THEN byId ELSE findByTitle(json, anchor)
      docTitle == IF node = <<>> THEN <<>> ELSE FindField(node[1].fields, "DocumentTitle")
  IN [title |-> anchor,
      body |-> IF node # <<>> /\ node[1].hasFields
               THEN Div(IF docTitle # <<>> THEN docTitle[1].value
                        ELSE IF node[1].fields # <<>> THEN node[1].fields[1].value
                        ELSE <<>>)
               ELSE PlaceholderMarker]

PlaceholderCalls(json, anchorRefs) ==
  [i \in 1..Len(anchorRefs) |-> PlaceholderCall(json, anchorRefs[i])]

\* the nodes updateAnchorPagesOnTraversal updates a page for
BackfillCalls(json, anchorRefs) ==
  LET all == PreOrder(json)
      refs == {anchorRefs[i] : i \in 1..Len(anchorRefs)}
  IN Concat([i \in 1..Len(all) |->
       IF all[i].detail /\ all[i].id \in refs /\ BackfillValue(all[i]) # <<>>
       THEN <<[title |-> all[i].id, body |-> Div(BackfillValue(all[i]))]>>
       ELSE <<>>])

\* step 9: the title of the main page
MainTitle(payloadTitle, json) ==
  FirstNonEmpty(<<payloadTitle, json.title,
                  Str(FieldValue(json.fields, "DocumentTitle")), DefaultTitle>>)

(***************************************************************************)
(* Sample documents.                                                       *)
(***************************************************************************)
\* the end-to-end scenario of the specification
DocE2E ==
  Node("d1", "Home", "", TRUE,
       <<Field("Text", Tag("<p>") \o Text("Hello ") \o Anchor("d2", "there") \o Tag("</p>"))>>,
       <<Node("d2", "Other", "", TRUE, <<Field("DocumentTitle", Text("OtherDoc"))>>, <<>>)>>)

\* a paragraph linking to a document whose content sits in its children
DocRef ==
  Node("r1", "Home", "Document", FALSE, <<>>,
       <<Node("c1", "Intro", "Paragraph", TRUE,
              <<Field("Text", Text("See ") \o Anchor("d2", "there"))>>, <<>>),
         Node("d2", "Other", "Document", FALSE, <<>>,
              <<Node("c2", "Part", "Paragraph", TRUE,
                     <<Field("Text", Text("Body"))>>, <<>>)>>)>>)

\* a linked document whose title is its id
DocSelf ==
  Node("r1", "Home", "Document", FALSE, <<>>,
       <<Node("c1", "Intro", "Paragraph", TRUE,
              <<Field("Text", Text("See ") \o Anchor("d3", "there"))>>, <<>>),
         Node("d3", "d3", "Document", TRUE,
              <<Field("Text", Text("Body3"))>>, <<>>)>>)

\* two shared paragraphs of one title, and an image
DocShared ==
  Node("r1", "Home", "Document", FALSE, <<>>,
       <<Node("s1", "P1", "SharedParagraph", TRUE,
              <<Field("ParagraphTitle", Text("SP")), Field("Text", Text("Shared"))>>, <<>>),
         Node("s2", "P2", "SharedParagraph", TRUE,
              <<Field("ParagraphTitle", Text("SP")), Field("Text", Text("Shared"))>>, <<>>),
         Node("i1", "Pic", "Image", FALSE, <<>>, <<>>)>>)

Docs == {DocE2E, DocRef, DocSelf, DocShared}

\* two anchors to one document
DocTwice ==
  Node("r1", "Home", "Document", FALSE, <<>>,
       <<Node("c1", "Intro", "Paragraph", TRUE,
              <<Field("Text", Text("See ") \o Anchor("d2", "there") \o Text(" and ")
                                \o Anchor("d2", "again"))>>, <<>>),
         Node("d2", "Other", "Document", FALSE, <<>>, <<>>)>>)

(***************************************************************************)
(* State.                                                                  *)
(***************************************************************************)
VARIABLES
  impl,    \* the resolver deployed: "pipeline" (part_000) or "index" (index.js)
  upload,  \* the export document the operator loaded: <<doc>>, or <<>> for none
  dom,     \* TRUE when the runtime has a DOMParser
  pages,   \* the page store: page id -> record, ids given in order of creation
  storage, \* Forge storage: item id -> the page id kept under item-map:<id>
  req,     \* slot -> the migrateJsonToPage invocation running in it
  prev,    \* what the invocation before the current one left
  nreq,    \* invocations started
  call     \* the last application of a utility on its own: [op, in, out]

vars == <<impl, upload, dom, pages, storage, req, prev, nreq, call>>

Slots == {"A"}
R == req["A"]
NoCall == [op |-> "", in |-> <<>>, out |-> <<>>]

(***************************************************************************)
(* The page store, as the handlers see it through requestConfluence.       *)
(* A response is a status: 200, a 4xx/5xx, or 0 when the request itself    *)
(* rejects.  The store may refuse any request; it answers 200 only when    *)
(* the request is one it can serve.                                        *)
(***************************************************************************)
StoreSpaceIdOfKey(key) == IF key = "K" THEN "10" ELSE ""
StoreSpaces == {"10"}

PageExists(store, id) == id \in 1..Len(store)

\* GET /pages?spaceId=..&title=..
StoreFind(store, space, title) ==
  {p \in 1..Len(store) : store[p].space = space /\ store[p].title = title}

\* POST /pages
StoreCreate(store, bodyData) ==
  Append(store, [space |-> bodyData.spaceId, title |-> bodyData.title,
                 version |-> 1, body |-> bodyData.value,
                 parentId |-> bodyData.parentId])

\* PUT /pages/{id}
StoreUpdate(store, id, bodyData) ==
  [store EXCEPT ![id] = [@ EXCEPT !.title = bodyData.title,
                                  !.version = bodyData.number,
                                  !.body = bodyData.value]]

SpaceStatuses == {200, 404, 0}
LookupStatuses == {200, 404, 0}
CreateStatuses(space) == (IF space \in StoreSpaces THEN {200} ELSE {}) \cup {404, 0}
GetStatuses(store, id) ==
  (IF PageExists(store, id) THEN {200} ELSE {}) \cup {404, 500, 0}
GetStatusesAsUser(store, id) ==
  (IF PageExists(store, id) THEN {200} ELSE {}) \cup {404, 403, 0}
PutStatuses(store, id, number) ==
  (IF ~PageExists(store, id) THEN {}
   ELSE IF number = store[id].version + 1 THEN {200} ELSE {409})
    \cup {404, 500, 0}
PutStatusesAsUser(store, id, number) ==
  (IF ~PageExists(store, id) THEN {}
   ELSE IF number = store[id].version + 1 THEN {200} ELSE {409})
    \cup {404, 403, 0}

\* Forge storage: a get or a set succeeds (200) or rejects (0)
StorageStatuses == {200, 0}
\* storage.get(mapKey): the page id kept for the item, 0 for none
StorageGet(kv, itemId) == IF itemId \in DOMAIN kv THEN kv[itemId] ELSE 0
\* storage.set(mapKey, {pageId, createdAt})
StorageSet(kv, itemId, pageId) ==
  [k \in DOMAIN kv \cup {itemId} |-> IF k = itemId THEN pageId ELSE kv[k]]

(***************************************************************************)
(* Requests, responses, errors.                                            *)
(***************************************************************************)
Payload(json, spaceId, spaceKey, pageId, createAsChildOf) ==
  [json |-> json, spaceId |-> spaceId, spaceKey |-> spaceKey, pageId |-> pageId,
   title |-> "", createAsChildOf |-> createAsChildOf, itemId |-> ""]
\* the payload of resolver 'ensurePageForItem'
ItemPayload(itemId, spaceId, title) ==
  [json |-> <<>>, spaceId |-> spaceId, spaceKey |-> "", pageId |-> 0,
   title |-> title, createAsChildOf |-> "", itemId |-> itemId]

NoError == [text |-> "", status |-> 0, by |-> ""]
\* new Error(`${text}: ${status} ${body}`), body the text `by` was answered
HttpError(text, status, by) == [text |-> text, status |-> status, by |-> by]
\* the rejection of a requestConfluence promise
RequestError(by) == [text |-> "request failed", status |-> 0, by |-> by]
MissingSpace == "Missing or invalid spaceId/spaceKey in payload (resolved spaceId is null)"
MissingJson == "Missing JSON payload under \"json\""
MissingSharedHub == "Missing or invalid sharedParagraphSpaceKey/spaceId"
MissingImageHub == "Missing or invalid imageHubSpaceKey/spaceId"
\* the validation messages of index.js
MissingUpdateSpace == "spaceId is required for updating a page"
SpaceNotFound == "Space not found for key"
MissingSpaceOrKey == "Missing spaceId or spaceKey in payload"

NoResp == [kind |-> "none", action |-> "", page |-> 0, error |-> NoError]
OkResp(action, page) == [kind |-> "ok", action |-> action, page |-> page, error |-> NoError]
ErrorResp(err) == [kind |-> "error", action |-> "", page |-> 0, error |-> err]

\* a handler whose catch lets the error through
CatchNothing(err) == [kind |-> "thrown", action |-> "", page |-> 0, error |-> err]

\* catch (err) { return { error: err.message || String(err) } }
Catch(err) == ErrorResp(err)

NoLocals ==
  [htmlBody |-> <<>>, finalHtml |-> <<>>, processedHtml |-> <<>>, title |-> "", shared |-> <<>>, placeholders |-> <<>>,
   backfills |-> <<>>, links |-> <<>>]

\* an invocation: where it stands (phase, sub, i), its locals, the requests it
\* has made (log), the errors raised inside it, each with the phase and the
\* number of requests made when it was raised (thrown), its response
IdleReq ==
  [impl |-> "", phase |-> "idle", sub |-> "", payload |-> Payload(<<>>, "", "", 0, ""),
   spaceId |-> "", spHub |-> "", imgHub |-> "", i |-> 0,
   found |-> 0, version |-> 0, primary |-> NoError, mapping |-> <<>>,
   my |-> NoLocals, log |-> <<>>, thrown |-> <<>>, resp |-> NoResp]

NoPrev ==
  [kind |-> "none", action |-> "", page |-> 0, rerun |-> FALSE, version |-> 0,
   npages |-> 0]

LogEntry(op, who, r, id, space, title, status, number) ==
  [op |-> op, who |-> who, phase |-> r.phase, id |-> id, space |-> space,
   title |-> title, status |-> status, number |-> number]
Logged(r, e) == [r EXCEPT !.log = Append(@, e)]

(***************************************************************************)
(* migrateJsonToPage: what the handlers compute between two awaits.        *)
(***************************************************************************)
\* payload.json || payload: the json document, else the payload object itself
\* (which has no detail, fields or children); <<>> would be a falsy value
JsonOrPayload(payload) == IF payload.json # <<>> THEN payload.json ELSE <<BareObject>>

\* knosysJson after migrateAnchorsInJson
KnosysJson(payload) == migrateAnchorsInJson(JsonOrPayload(payload)[1])

\* the locals of the pipeline's handler, computed once on entry: htmlBody
\* (steps 1-5), finalHtml (step 8), title (step 9), and the calls its three
\* loops will issue
Locals(payload, hasDom) ==
  LET json == KnosysJson(payload)
      htmlBody == HtmlBody(json, payload.spaceKey, hasDom)
      anchorRefs == AnchorRefs(htmlBody)
  IN [htmlBody |-> htmlBody,
      finalHtml |-> FinalHtml(htmlBody),
      processedHtml |-> <<>>,
      title |-> MainTitle(payload.title, json),
      shared |-> SharedCalls(json),
      placeholders |-> PlaceholderCalls(json, anchorRefs),
      backfills |-> BackfillCalls(json, anchorRefs),
      links |-> <<>>]

\* replaceItemLinksWithWebui: the distinct data-itemid values of the markup, in
\* order of first occurrence
\* the ids of the anchors, one for each anchor
ItemIdsEach(html) ==
  Concat([i \in 1..Len(html) |->
    IF html[i].k = "a" /\ html[i].a # "" THEN <<html[i].a>> ELSE <<>>])

ItemIds(html) ==
  Dedup(Concat([i \in 1..Len(html) |->
    IF html[i].k = "a" /\ html[i].a # "" THEN <<html[i].a>> ELSE <<>>]))

\* the locals of the handler of index.js
LocalsIndex(payload) ==
  LET json == JsonOrPayload(payload)[1]
      h0 == extractHtmlFromNodeIndex(json)
      htmlBody == IF h0 = <<>> THEN NoContent ELSE h0
  IN [htmlBody |-> htmlBody,
      finalHtml |-> <<>>,
      processedHtml |-> <<>>,
      title |-> MainTitle(payload.title, json),
      shared |-> <<>>, placeholders |-> <<>>, backfills |-> <<>>,
      links |-> ItemIds(htmlBody)]

\* replaceItemLinksWithWebui, its last step: anchors of the ids that got a
\* mapping entry become links to the page (mapping[i] = 0: the entry is null)
ReplaceItemLinks(html, spaceId, ids, mapping) ==
  LET Entry(id) == {i \in 1..Len(ids) : ids[i] = id /\ i <= Len(mapping) /\ mapping[i] # 0}
  IN [i \in 1..Len(html) |->
        LET t == html[i] IN
        IF t.k = "a" /\ t.a # "" /\ Entry(t.a) # {}
        THEN Tok("weblink", spaceId, ToString(mapping[CHOOSE j \in Entry(t.a) : TRUE]),
                 escapeHtml(t.b))
        ELSE t]

\* processedHtml of index.js
ProcessedHtml(r) ==
  rewriteLinksForRedirect(
    ReplaceItemLinks(r.my.htmlBody, r.spaceId, r.my.links, r.mapping), r.spaceId)

\* the markup written to the main page
ReqFinalHtml(r) ==
  IF r.impl = "index" THEN r.my.processedHtml ELSE r.my.finalHtml
ReqTitle(r) == r.my.title
ReqSharedCalls(r) == r.my.shared
ReqPlaceholderCalls(r) == r.my.placeholders
ReqBackfillCalls(r) == r.my.backfills
ReqLinks(r) == r.my.links

\* the hub key both hubs default to: payload.spaceKey || payload.spaceId
HubKey(r) == FirstNonEmpty(<<r.payload.spaceKey, r.payload.spaceId>>)
\* typeof key === 'string' && isNaN(Number(key))
IsNaNKey(key) == key \notin {"", "10"}

Return(r, resp) == [r EXCEPT !.phase = "done", !.sub = "", !.resp = resp]

\* step 10, create branch: the final createPage
EnterCreate(r) == [r EXCEPT !.phase = "create", !.sub = "create", !.i = 0]

\* replaceItemLinksWithWebui has returned: processedHtml is set and the main
\* page is written
AfterLinks(r) ==
  LET l == [r EXCEPT !.my.processedHtml = ProcessedHtml(r)] IN
  IF r.payload.pageId # 0
  THEN [l EXCEPT !.phase = "update", !.sub = "putApp", !.i = 0]
  ELSE EnterCreate(l)

\* the loop of replaceItemLinksWithWebui at its i-th id: ensurePageForItemInternal
\* reads the mapping
LinkAt(r, i) ==
  IF i <= Len(ReqLinks(r))
  THEN [r EXCEPT !.phase = "links", !.sub = "storageGet", !.i = i, !.found = 0]
  ELSE AfterLinks(r)

\* mapping[id] = {webui, title}, or null
LinkMapped(r, pageId) == LinkAt([r EXCEPT !.mapping = Append(@, pageId)], r.i + 1)

\* the catch inside the loop of replaceItemLinksWithWebui: the error is logged
\* and mapping[id] = null
LinkFailed(r) == LinkMapped(r, 0)

\* an error that is noted and aborts nothing: the call is made again
ThrowAndGoOn(r, err) ==
  [r EXCEPT !.thrown = Append(@, [at |-> Len(r.log), phase |-> r.phase, err |-> err])]

\* an error is raised: it reaches the catch of the handler, unless the loop of
\* replaceItemLinksWithWebui catches it first
Throw(r, err) ==
  LET t == [r EXCEPT !.thrown = Append(@, [at |-> Len(r.log), phase |-> r.phase,
                                           err |-> err])] IN
  IF r.phase = "links" THEN LinkFailed(t) ELSE Return(t, Catch(err))

\* resolver 'ensurePageForItem' on entry: the two checks, then storage.get
EnteredEnsure(payload) ==
  LET r == [IdleReq EXCEPT !.impl = "index", !.payload = payload,
                           !.spaceId = payload.spaceId] IN
  IF payload.itemId = "" THEN Return(r, ErrorResp(HttpError("Missing itemId", 0, "")))
  ELSE IF payload.spaceId = "" THEN Return(r, ErrorResp(HttpError("Missing spaceId", 0, "")))
  ELSE [r EXCEPT !.phase = "ensure", !.sub = "storageGet"]

\* the item whose page is asked for: of the resolver's payload, or the i-th id
\* of replaceItemLinksWithWebui
CurrentItem(r) == IF r.phase = "ensure" THEN r.payload.itemId ELSE ReqLinks(r)[r.i]


BackfillAt(r, i) ==
  IF i <= Len(ReqBackfillCalls(r))
  THEN [r EXCEPT !.phase = "backfill", !.sub = "lookup", !.i = i]
  ELSE EnterCreate(r)

PlaceholderAt(r, i) ==
  IF i <= Len(ReqPlaceholderCalls(r))
  THEN [r EXCEPT !.phase = "placeholder", !.sub = "lookup", !.i = i]
  ELSE BackfillAt(r, 1)

\* step 10: update when a pageId came, else the create branch
AfterShared(r) ==
  IF r.payload.pageId # 0
  THEN [r EXCEPT !.phase = "update", !.sub = "getApp", !.i = 0]
  ELSE PlaceholderAt(r, 1)

SharedAt(r, i) ==
  IF i <= Len(ReqSharedCalls(r))
  THEN [r EXCEPT !.phase = "shared", !.sub = "lookup", !.i = i]
  ELSE AfterShared(r)

\* processSharedContent after both hub ids are resolved
AfterHubs(r) ==
  IF r.spHub = "" THEN Throw(r, HttpError(MissingSharedHub, 0, ""))
  ELSE IF r.imgHub = "" THEN Throw(r, HttpError(MissingImageHub, 0, ""))
  ELSE SharedAt(r, 1)

\* steps 1-6 up to the first request of processSharedContent
EnterShared(r) ==
  IF IsNaNKey(HubKey(r))
  THEN [r EXCEPT !.phase = "hubShared", !.sub = "space"]
  ELSE AfterHubs([r EXCEPT !.spHub = HubKey(r), !.imgHub = HubKey(r)])

\* a resolver that goes on without a spaceId
AfterSpaceUnchecked(r) == EnterShared(r)

\* the check of the resolved spaceId
AfterSpace(r) ==
  IF r.spaceId = "" THEN Return(r, ErrorResp(HttpError(MissingSpace, 0, "")))
  ELSE EnterShared(r)

\* the checks of targetSpaceId in index.js
AfterSpaceIndex(r) ==
  IF r.spaceId # "" THEN LinkAt(r, 1)
  ELSE Return(r, ErrorResp(HttpError(
         IF r.payload.spaceKey # "" THEN SpaceNotFound ELSE MissingSpaceOrKey, 0, "")))

\* the pipeline's handler from its entry to its first await
Entered(payload, hasDom) ==
  LET r == [IdleReq EXCEPT !.impl = "pipeline", !.payload = payload,
                           !.spaceId = payload.spaceId,
                           !.my = Locals(payload, hasDom)] IN
  IF JsonOrPayload(payload) = <<>>
  THEN Return(r, ErrorResp(HttpError(MissingJson, 0, "")))
  ELSE IF payload.spaceId = "" /\ payload.spaceKey # ""
  THEN [r EXCEPT !.phase = "space", !.sub = "space"]
  ELSE AfterSpace(r)

\* the handler of index.js from its entry to its first await
EnteredIndex(payload) ==
  LET r == [IdleReq EXCEPT !.impl = "index", !.payload = payload,
                           !.spaceId = payload.spaceId,
                           !.my = LocalsIndex(payload)] IN
  IF JsonOrPayload(payload) = <<>>
  THEN Return(r, ErrorResp(HttpError(MissingJson, 0, "")))
  ELSE IF payload.pageId # 0
  THEN IF payload.spaceId = ""
       THEN Return(r, ErrorResp(HttpError(MissingUpdateSpace, 0, "")))
       ELSE [r EXCEPT !.phase = "update", !.sub = "getApp"]
  ELSE IF payload.spaceId = "" /\ payload.spaceKey # ""
  THEN [r EXCEPT !.phase = "space", !.sub = "space"]
  ELSE AfterSpaceIndex(r)

\* `Migrated item ${id}`, for the item ids of the model
MigratedItem(id) ==
  CASE id = "d2" -> "Migrated item d2"
    [] id = "d3" -> "Migrated item d3"
    [] OTHER -> "Migrated item"

\* the body ensurePageForItemInternal creates a page with
ToBeMigrated == Text("To be Migrated!")

\* the page createPage or getOrCreatePage is asked for at this point
CurrentCall(r) ==
  IF r.phase = "shared"
  THEN LET c == ReqSharedCalls(r)[r.i] IN
       [space |-> IF c.hub = "image" THEN r.imgHub ELSE r.spHub,
        title |-> c.title, parentId |-> "", body |-> c.body]
  ELSE IF r.phase = "placeholder"
  THEN LET c == ReqPlaceholderCalls(r)[r.i] IN
       [space |-> r.spaceId, title |-> c.title, parentId |-> "", body |-> c.body]
  ELSE IF r.phase = "backfill"
  THEN LET c == ReqBackfillCalls(r)[r.i] IN
       [space |-> r.spaceId, title |-> c.title, parentId |-> "", body |-> c.body]
  ELSE IF r.phase = "links"
  THEN [space |-> r.spaceId, title |-> MigratedItem(ReqLinks(r)[r.i]), parentId |-> "",
        body |-> ToBeMigrated]
  ELSE IF r.phase = "ensure"
  THEN [space |-> r.spaceId,
        title |-> FirstNonEmpty(<<r.payload.title, MigratedItem(r.payload.itemId)>>),
        parentId |-> "", body |-> ToBeMigrated]
  ELSE [space |-> r.spaceId, title |-> ReqTitle(r),
        parentId |-> IF r.impl = "index" THEN r.payload.createAsChildOf ELSE "",
        body |-> ReqFinalHtml(r)]

\* a traversal that takes no version from the page getOrCreatePage returned
ReturnedNoVersion(r, id, number) ==
  IF r.phase = "shared" THEN SharedAt(r, r.i + 1)
  ELSE IF r.phase = "placeholder" THEN PlaceholderAt(r, r.i + 1)
  ELSE [r EXCEPT !.sub = "putApp", !.found = id, !.version = 0]

\* getOrCreatePage has returned page id with version number
Returned(r, id, number) ==
  IF r.phase = "shared" THEN SharedAt(r, r.i + 1)
  ELSE IF r.phase = "placeholder" THEN PlaceholderAt(r, r.i + 1)
  ELSE [r EXCEPT !.sub = "putApp", !.found = id, !.version = number]

\* the bodyData of createPage in part_000: parentId is not sent
CreateBody(spaceId, title, parentId, htmlValue) ==
  [spaceId |-> spaceId, title |-> title, parentId |-> "", value |-> Div(htmlValue)]

\* the bodyData of createPage in index.js
CreateBodyIndex(spaceId, title, parentId, htmlValue) ==
  [spaceId |-> spaceId, title |-> title, parentId |-> parentId, value |-> Div(htmlValue)]

\* an updatePage that sends back the version number it was given
UpdateBodySameNumber(pageId, title, spaceId, htmlValue, currentVersionNumber) ==
  [id |-> pageId, title |-> title, spaceId |-> spaceId, value |-> Div(htmlValue),
   number |-> currentVersionNumber]

\* the bodyData of updatePage
UpdateBody(pageId, title, spaceId, htmlValue, currentVersionNumber) ==
  [id |-> pageId, title |-> title, spaceId |-> spaceId, value |-> Div(htmlValue),
   number |-> currentVersionNumber + 1]

\* the updatePage call the request is at: the main page, or a backfill
CurrentUpdate(r) ==
  IF r.phase = "backfill"
  THEN LET c == ReqBackfillCalls(r)[r.i] IN
       UpdateBody(r.found, c.title, r.spaceId, c.body, r.version)
  ELSE UpdateBody(r.payload.pageId, ReqTitle(r), r.spaceId, ReqFinalHtml(r), r.version)

\* updatePage has returned
Updated(r) ==
  IF r.phase = "backfill" THEN BackfillAt(r, r.i + 1)
  ELSE Return(r, OkResp("updated", r.payload.pageId))

\* getPageById has returned the page, at version number
Fetched(r, number) ==
  IF r.phase = "links" THEN LinkMapped(r, r.found)
  ELSE IF r.impl = "index" THEN LinkAt([r EXCEPT !.version = number], 1)
  ELSE [r EXCEPT !.sub = "putApp", !.version = number]

\* the page getPageById is asked for
CurrentGet(r) == IF r.phase = "links" THEN r.found ELSE r.payload.pageId

(***************************************************************************)
(* Actions: the entry of the handler, then one action per request to the   *)
(* store, each running the handler on to its next await or its return.     *)
(***************************************************************************)
Busy(r) == r.phase \notin {"idle", "done"}

\* what is kept across invocations: the response of the invocation that just
\* returned, whether the new invocation repeats it (the same payload, after it
\* answered ok), and the store as the new invocation finds it (the version of
\* the page it is asked to update, the number of pages)
Summary(r, store, payload) ==
  [kind |-> r.resp.kind, action |-> r.resp.action, page |-> r.resp.page,
   rerun |-> (r.resp.kind = "ok" /\ payload = r.payload),
   version |-> IF PageExists(store, payload.pageId) THEN store[payload.pageId].version
               ELSE 0,
   npages |-> Len(store)]

SpaceIds == {"", "10"}
SpaceKeys == {"", "K"}
\* 0: no pageId given; 1: the page the store starts with; 99: an id of no page
PageIds == {0, 1, 99}

\* resolver 'migrateJsonToPage' is invoked, with a spaceId, a spaceKey and a
\* pageId of the given sets and, when it is to create the page, a
\* createAsChildOf
migrateJsonToPage(s, spaceIds, spaceKeys, pageIds, parents) ==
  /\ ~Busy(req[s])
  /\ nreq < MaxReqs
  /\ \E spaceId \in spaceIds, spaceKey \in spaceKeys, pageId \in pageIds,
        parentId \in parents :
       LET payload == Payload(upload, spaceId, spaceKey, pageId,
                              IF pageId = 0 THEN parentId ELSE "") IN
       /\ req' = [req EXCEPT ![s] = IF impl = "index" THEN EnteredIndex(payload)
                                     ELSE Entered(payload, dom)]
       /\ prev' = Summary(req[s], pages, payload)
  /\ nreq' = nreq + 1
  /\ UNCHANGED <<call, impl, upload, dom, pages, storage>>

\* resolver 'ensurePageForItem' is invoked, with an itemId, a spaceId and a
\* title of the given sets
ensurePageForItem(s, itemIds, spaceIds, titles) ==
  /\ ~Busy(req[s])
  /\ nreq < MaxReqs
  /\ impl = "index"
  /\ \E itemId \in itemIds, spaceId \in spaceIds, title \in titles :
       LET payload == ItemPayload(itemId, spaceId, title) IN
       /\ req' = [req EXCEPT ![s] = EnteredEnsure(payload)]
       /\ prev' = Summary(req[s], pages, payload)
  /\ nreq' = nreq + 1
  /\ UNCHANGED <<call, impl, upload, dom, pages, storage>>

\* getSpaceIdFromKey: null unless the response is ok and lists a space
SpaceIdResult(st, key) == IF st = 200 THEN StoreSpaceIdOfKey(key) ELSE ""

\* getSpaceIdFromKey answers: for the target space, then for the two hubs
getSpaceIdFromKey(s) ==
  LET r == req[s]
      key == IF r.phase = "space" THEN r.payload.spaceKey ELSE HubKey(r)
  IN
  /\ r.sub = "space"
  /\ \E st \in SpaceStatuses :
       LET l == Logged(r, LogEntry("SPACE", "asApp", r, 0, key, "", st, 0))
           id == SpaceIdResult(st, key)
       IN req' = [req EXCEPT ![s] =
            IF st = 0 THEN Throw(l, RequestError("asApp"))
            ELSE IF r.phase = "space"
            THEN IF r.impl = "index" THEN AfterSpaceIndex([l EXCEPT !.spaceId = id])
                 ELSE AfterSpace([l EXCEPT !.spaceId = id])
            ELSE IF r.phase = "hubShared"
            THEN [l EXCEPT !.spHub = id, !.phase = "hubImage"]
            ELSE AfterHubs([l EXCEPT !.imgHub = id])]
  /\ UNCHANGED <<call, impl, upload, dom, pages, storage, prev, nreq>>

\* a getOrCreatePage that finds no page
LookupResultsNone(st, store, space, title) == {}

\* getOrCreatePage: data.results when res.ok, nothing otherwise
LookupResults(st, store, space, title) ==
  IF st = 200 THEN StoreFind(store, space, title) ELSE {}

\* getOrCreatePage: the lookup by title answers
getOrCreatePage(s) ==
  LET r == req[s]
      c == CurrentCall(r)
  IN
  /\ r.sub = "lookup"
  /\ \E st \in LookupStatuses :
       LET l == Logged(r, LogEntry("LOOKUP", "asApp", r, 0, c.space, c.title, st, 0))
           results == LookupResults(st, pages, c.space, c.title)
       IN IF st = 0 THEN req' = [req EXCEPT ![s] = Throw(l, RequestError("asApp"))]
          ELSE IF results = {} THEN req' = [req EXCEPT ![s] = [l EXCEPT !.sub = "create"]]
          ELSE \E p \in results :
                 req' = [req EXCEPT ![s] = Returned(l, p, pages[p].version)]
  /\ UNCHANGED <<call, impl, upload, dom, pages, storage, prev, nreq>>

\* a createPage whose caller does not take the id of the new page
CreateResultNoId(l, st, newId) ==
  IF st = 0 THEN Throw(l, RequestError("asApp"))
  ELSE IF st # 200 THEN Throw(l, HttpError("POST create page failed", st, "asApp"))
  ELSE IF l.phase = "create" THEN Return(l, OkResp("created", newId))
  ELSE IF l.phase \in {"links", "ensure"} THEN [l EXCEPT !.sub = "storageSet", !.found = 0]
  ELSE Returned(l, newId, 1)

\* createPage after its POST was answered st
CreateResult(l, st, newId) ==
  IF st = 0 THEN Throw(l, RequestError("asApp"))
  ELSE IF st # 200 THEN Throw(l, HttpError("POST create page failed", st, "asApp"))
  ELSE IF l.phase = "create" THEN Return(l, OkResp("created", newId))
  ELSE IF l.phase \in {"links", "ensure"} THEN [l EXCEPT !.sub = "storageSet", !.found = newId]
  ELSE Returned(l, newId, 1)

\* createPage: the POST answers (from getOrCreatePage or
\* ensurePageForItemInternal, or for the main page)
createPage(s) ==
  LET r == req[s]
      c == CurrentCall(r)
      bodyData == IF r.impl = "index"
                  THEN CreateBodyIndex(c.space, c.title, c.parentId, c.body)
                  ELSE CreateBody(c.space, c.title, c.parentId, c.body)
      newId == Len(pages) + 1
  IN
  /\ r.sub = "create"
  /\ \E st \in CreateStatuses(c.space) :
       LET l == Logged(r, LogEntry("POST", "asApp", r, IF st = 200 THEN newId ELSE 0,
                                   c.space, c.title, st, 0))
       IN /\ pages' = IF st = 200 THEN StoreCreate(pages, bodyData) ELSE pages
          /\ req' = [req EXCEPT ![s] = CreateResult(l, st, newId)]
  /\ UNCHANGED <<call, impl, upload, dom, storage, prev, nreq>>

\* getPageById after the app's GET was answered st (number: the version read)
GetAsAppResult(l, st, number) ==
  IF st = 0 THEN Throw(l, RequestError("asApp"))
  ELSE IF st = 200 THEN Fetched(l, number)
  ELSE IF st = 404
  THEN [l EXCEPT !.sub = "getUser", !.primary = HttpError("GET page failed", st, "asApp")]
  ELSE Throw(l, HttpError("GET page failed", st, "asApp"))

\* a getPageById that drops what the user's GET returned
GetAsUserResultDropped(l, st, number) == Throw(l, l.primary)

\* getPageById after the user's GET was answered st
GetAsUserResult(l, st, number) ==
  IF st = 200 THEN Fetched(l, number)
  ELSE Throw(l, l.primary)

StoredVersion(store, id) == IF PageExists(store, id) THEN store[id].version ELSE 0

\* getPageById: the GET as the app answers
getPageByIdAsApp(s) ==
  LET r == req[s]
      id == CurrentGet(r)
  IN
  /\ r.sub = "getApp"
  /\ \E st \in GetStatuses(pages, id) :
       LET l == Logged(r, LogEntry("GET", "asApp", r, id, "", "", st, 0)) IN
       req' = [req EXCEPT ![s] = GetAsAppResult(l, st, StoredVersion(pages, id))]
  /\ UNCHANGED <<call, impl, upload, dom, pages, storage, prev, nreq>>

\* getPageById: the GET as the user answers
getPageByIdAsUser(s) ==
  LET r == req[s]
      id == CurrentGet(r)
  IN
  /\ r.sub = "getUser"
  /\ \E st \in GetStatusesAsUser(pages, id) :
       LET l == Logged(r, LogEntry("GET", "asUser", r, id, "", "", st, 0)) IN
       req' = [req EXCEPT ![s] = GetAsUserResult(l, st, StoredVersion(pages, id))]
  /\ UNCHANGED <<call, impl, upload, dom, pages, storage, prev, nreq>>

\* an updatePage that gives up on the app's 404
PutAsAppResultNoRetry(l, st) ==
  IF st = 0 THEN Throw(l, RequestError("asApp"))
  ELSE IF st = 200 THEN Updated(l)
  ELSE Throw(l, HttpError("PUT page failed", st, "asApp"))

\* an updatePage that takes a version conflict for a success
PutAsAppResultConflictOk(l, st) ==
  IF st = 0 THEN Throw(l, RequestError("asApp"))
  ELSE IF st \in {200, 409} THEN Updated(l)
  ELSE IF st = 404
  THEN [l EXCEPT !.sub = "putUser", !.primary = HttpError("PUT page failed", st, "asApp")]
  ELSE Throw(l, HttpError("PUT page failed", st, "asApp"))

\* updatePage after the app's PUT was answered st
PutAsAppResult(l, st) ==
  IF st = 0 THEN Throw(l, RequestError("asApp"))
  ELSE IF st = 200 THEN Updated(l)
  ELSE IF st = 404
  THEN [l EXCEPT !.sub = "putUser", !.primary = HttpError("PUT page failed", st, "asApp")]
  ELSE Throw(l, HttpError("PUT page failed", st, "asApp"))

\* an updatePage that raises the error of its second attempt
PutAsUserResultOwnError(l, st) ==
  IF st = 200 THEN Updated(l) ELSE Throw(l, HttpError("PUT page failed", st, "asUser"))

\* updatePage after the user's PUT was answered st
PutAsUserResult(l, st) ==
  IF st = 200 THEN Updated(l) ELSE Throw(l, l.primary)

\* updatePage: the PUT as the app answers
updatePageAsApp(s) ==
  LET r == req[s]
      bodyData == CurrentUpdate(r)
  IN
  /\ r.sub = "putApp"
  /\ \E st \in PutStatuses(pages, bodyData.id, bodyData.number) :
       LET l == Logged(r, LogEntry("PUT", "asApp", r, bodyData.id, "", bodyData.title,
                                   st, bodyData.number))
       IN /\ pages' = IF st = 200 THEN StoreUpdate(pages, bodyData.id, bodyData) ELSE pages
          /\ req' = [req EXCEPT ![s] = PutAsAppResult(l, st)]
  /\ UNCHANGED <<call, impl, upload, dom, storage, prev, nreq>>

\* updatePage: the PUT as the user answers
updatePageAsUser(s) ==
  LET r == req[s]
      bodyData == CurrentUpdate(r)
  IN
  /\ r.sub = "putUser"
  /\ \E st \in PutStatusesAsUser(pages, bodyData.id, bodyData.number) :
       LET l == Logged(r, LogEntry("PUT", "asUser", r, bodyData.id, "", bodyData.title,
                                   st, bodyData.number))
       IN /\ pages' = IF st = 200 THEN StoreUpdate(pages, bodyData.id, bodyData) ELSE pages
          /\ req' = [req EXCEPT ![s] = PutAsUserResult(l, st)]
  /\ UNCHANGED <<call, impl, upload, dom, storage, prev, nreq>>

\* ensurePageForItemInternal after storage.get was answered: the page kept for
\* the item is used, else (nothing kept, or the get failed) one is created
\* an ensurePageForItem that never finds the item mapped
StorageGetResultUnmapped(l, st, kept) == [l EXCEPT !.sub = "create"]

StorageGetResult(l, st, kept) ==
  IF st = 200 /\ kept # 0
  THEN IF l.phase = "ensure" THEN Return(l, OkResp("ensured", kept))
       ELSE [l EXCEPT !.sub = "getApp", !.found = kept]
  ELSE [l EXCEPT !.sub = "create"]

\* ensurePageForItemInternal: storage.get(mapKey) answers
storageGet(s) ==
  LET r == req[s]
      itemId == CurrentItem(r)
  IN
  /\ r.sub = "storageGet"
  /\ \E st \in StorageStatuses :
       LET kept == StorageGet(storage, itemId)
           l == Logged(r, LogEntry("SGET", "storage", r, kept, "", itemId, st, 0))
       IN req' = [req EXCEPT ![s] = StorageGetResult(l, st, kept)]
  /\ UNCHANGED <<call, impl, upload, dom, pages, storage, prev, nreq>>

\* ensurePageForItemInternal: storage.set(mapKey, ..) answers; a failure is
\* logged and the new page is used all the same
storageSet(s) ==
  LET r == req[s]
      itemId == CurrentItem(r)
  IN
  /\ r.sub = "storageSet"
  /\ \E st \in StorageStatuses :
       LET l == Logged(r, LogEntry("SSET", "storage", r, r.found, "", itemId, st, 0))
       IN /\ storage' = IF st = 200 THEN StorageSet(storage, itemId, r.found) ELSE storage
          /\ req' = [req EXCEPT ![s] = IF r.phase = "ensure"
                                        THEN Return(l, OkResp("ensured", r.found))
                                        ELSE [l EXCEPT !.sub = "getApp"]]
  /\ UNCHANGED <<call, impl, upload, dom, pages, prev, nreq>>

(***************************************************************************)
(* The utilities applied on their own, to the trees and markup below.      *)
(***************************************************************************)
SeqsUpTo(S, n) == UNION {[1..k -> S] : k \in 0..n}

\* trees for buildIdMap: three levels, ids absent, single and repeated, nodes
\* of one id told apart by their titles, objects without detail
IdLeaves == {Node(id, "z", "", FALSE, <<>>, <<>>) : id \in {"", "a", "b"}}
IdMids ==
  {Node(id, title, "", FALSE, <<>>, kids) :
     id \in {"", "a", "b"}, title \in {"x", "y"}, kids \in SeqsUpTo(IdLeaves, 1)}
    \cup {BareObject}
IdTree(id, kids) == Node(id, "r", "", FALSE, <<>>, kids)

Applied(op, in, out) ==
  /\ call' = [op |-> op, in |-> in, out |-> out]
  /\ UNCHANGED <<impl, upload, dom, pages, storage, req, prev, nreq>>

CallBuildIdMap ==
  /\ call = NoCall
  /\ \E id \in {"", "a", "b"}, n \in 0..MaxKids :
       \E kids \in [1..n -> IdMids] :
         Applied("buildIdMap", IdTree(id, kids), buildIdMap(IdTree(id, kids)))

\* one id looked up in one tree both ways: by findItemById, as the link
\* rewriters and the backfill do, and in the map of buildIdMap, as
\* replaceAnchorsWithContent does
CallFindItemById ==
  /\ call = NoCall
  /\ \E root \in {"", "a", "b"}, id \in {"a", "b"}, n \in 0..MaxKids :
       \E kids \in [1..n -> IdMids] :
         LET data == IdTree(root, kids)
             idMap == buildIdMap(data)
         IN Applied("findItemById", [data |-> data, id |-> id],
                    [item |-> findItemById(data, id),
                     mapped |-> IF id \in DOMAIN idMap THEN <<idMap[id]>> ELSE <<>>])

\* fields for extractHtmlFromNode: LinkText and HiddenText with and without a
\* value, a second LinkText, a Text
PairFields ==
  {Field("LinkText", Text("A")), Field("LinkText", Text("A2")), Field("LinkText", <<>>),
   Field("HiddenText", Text("B")), Field("HiddenText", <<>>), Field("Text", Text("C"))}

\* the node carrying the fields, at each place extractHtmlFromNode reads fields
\* from: the node itself, a child without children, a child of a child; the
\* nodes next to it carry a Text of their own
Beside(text) == Node("s", "Side", "", TRUE, <<Field("Text", Text(text))>>, <<>>)
PairTree(place, fields) ==
  LET node == Node("p", "Pair", "", TRUE, fields, <<>>) IN
  IF place = "self" THEN node
  ELSE IF place = "child"
  THEN Node("r", "Root", "", TRUE, <<>>, <<Beside("S1"), node, Beside("S2")>>)
  ELSE Node("r", "Root", "", TRUE, <<>>,
            <<Node("m", "Mid", "", TRUE, <<>>, <<Beside("S1"), node, Beside("S2")>>)>>)

CallExtractHtmlFromNode ==
  /\ call = NoCall
  /\ \E place \in {"self", "child", "grandchild"}, n \in 0..MaxFields :
       \E fields \in [1..n -> PairFields] :
         Applied("extractHtmlFromNode", [place |-> place, fields |-> fields],
                 extractHtmlFromNode(PairTree(place, fields)))

\* an anchor to item d2 in a tree whose second node is d2, for the two
\* rewriters of item anchors
LinkedItem(type, title, docTitle) ==
  Node("d1", "Home", "Document", TRUE, <<>>,
       <<Node("d2", title, type, TRUE,
              IF docTitle = "none" THEN <<Field("Text", Text("T"))>>
              ELSE <<Field("Text", Text("T")), Field("DocumentTitle", Text(docTitle))>>,
              <<>>)>>)

CallLinkRewriter ==
  /\ call = NoCall
  /\ \E op \in {"insertAnchorLinksToPages", "rewriteInternalLinks"},
        type \in {"Document", "Link", "Paragraph"}, title \in {"", "Other"},
        docTitle \in {"none", "", "OtherDoc"}, text \in {"", "there"} :
       LET data == LinkedItem(type, title, docTitle)
           html == Anchor("d2", text)
       IN Applied(op, [type |-> type, title |-> title, docTitle |-> docTitle,
                       text |-> text, id |-> "d2"],
                  IF op = "insertAnchorLinksToPages"
                  THEN insertAnchorLinksToPages(html, data, "K")
                  ELSE rewriteInternalLinks(html, data, "K"))

\* markup with an anchor to item id between two pieces, one of them possibly
\* an anchor to the Document d1 or a bookmark link, for a tree whose second
\* node d2 is of the given type with, without or with an empty URL; the
\* input of rewriteHiddenLinks is what rewriteInternalLinks returned
AroundAnchor ==
  {<<>>, Text("x"), Anchor("d1", "Home"), <<Tok("hashlink", "b", "mark", "")>>}
UrlNode(type, url) ==
  Node("d1", "Home", "Document", TRUE, <<>>,
       <<Node("d2", "Other", type, TRUE,
              IF url = "none" THEN <<Field("Text", Text("T"))>>
              ELSE <<Field("Text", Text("T")), Field("URL", Text(url))>>,
              <<>>)>>)

CallRewriteAround ==
  /\ call = NoCall
  /\ \E op \in {"insertAnchorLinksToPages", "rewriteInternalLinks", "rewriteHiddenLinks"},
        type \in {"Document", "Link", "Paragraph", ""}, url \in {"none", "", "u"},
        id \in {"d2", "zz"}, before \in AroundAnchor, after \in AroundAnchor :
       LET data == UrlNode(type, url)
           html == before \o Anchor(id, "there") \o after
           in == IF op = "rewriteHiddenLinks"
                 THEN rewriteInternalLinks(html, data, "K") ELSE html
       IN Applied(op, [html |-> in, data |-> data],
                  IF op = "insertAnchorLinksToPages"
                  THEN insertAnchorLinksToPages(in, data, "K")
                  ELSE IF op = "rewriteInternalLinks"
                  THEN rewriteInternalLinks(in, data, "K")
                  ELSE rewriteHiddenLinks(in, data, "K"))

\* nodes for the value updateAnchorPagesOnTraversal writes: no fields array, an
\* empty one, one Text; a child has at most one child of its own
ValueFields == {<<>>, <<Field("Text", Text("x"))>>, <<Field("Text", Text("y"))>>}
ValueNode(id, hasFields, fields, kids) == Node(id, "n", "", hasFields, fields, kids)
ValueLeaves ==
  {ValueNode("l", TRUE, f, <<>>) : f \in ValueFields} \cup {ValueNode("l", FALSE, <<>>, <<>>)}
ValueMids ==
  {ValueNode("m", TRUE, f, kids) : f \in ValueFields, kids \in SeqsUpTo(ValueLeaves, 1)}
    \cup {ValueNode("m", FALSE, <<>>, kids) : kids \in SeqsUpTo(ValueLeaves, 1)}

CallBackfillValue ==
  /\ call = NoCall
  /\ \E f \in ValueFields, hasFields \in BOOLEAN, n \in 0..MaxKids :
       \E kids \in [1..n -> ValueMids] :
         LET node == ValueNode("d2", hasFields, IF hasFields THEN f ELSE <<>>, kids) IN
         Applied("backfillValue", node, BackfillValue(node))

\* trees four levels deep for extractHtmlFromNode: the root (text r), its
\* children (k), their children (g), and one more level (z)
DepthNode(id, text, kids) ==
  Node(id, "n", "", text # "", IF text = "" THEN <<>> ELSE <<Field("Text", Text(text))>>, kids)
DepthGrandKids ==
  {DepthNode("g", text, kids) : text \in {"", "g"},
                               kids \in {<<>>, <<DepthNode("z", "z", <<>>)>>}}
DepthKids ==
  {DepthNode("k", text, kids) : text \in {"", "k"}, kids \in SeqsUpTo(DepthGrandKids, 2)}

CallExtractHtmlOfTree ==
  /\ call = NoCall
  /\ \E n \in 1..MaxKids :
       \E kids \in [1..n -> DepthKids] :
         LET root == DepthNode("r", "r", kids) IN
         Applied("extractHtmlFromNode of a tree", root, extractHtmlFromNode(root))

\* documents for the passes of colorFormatter: text, blank text, a void and
\* an empty element; elements of two tags holding up to two of them; an
\* element around one of those
DomLeaves == {DomText("t"), DomText(" "), DomElem("br", <<>>), DomElem("div", <<>>)}
DomInner == {DomElem(tag, kids) : tag \in {"div", "span"}, kids \in SeqsUpTo(DomLeaves, 2)}
DomOuter == {DomElem("div", <<n>>) : n \in DomInner}

CallRemoveEmptyTags ==
  /\ call = NoCall
  /\ \E n \in 1..MaxKids :
       \E body \in [1..n -> DomInner \cup DomOuter] :
         Applied("removeEmptyTags", body, removeEmptyTags(body))

CallUnwrapNestedSameTags ==
  /\ call = NoCall
  /\ \E n \in 1..MaxKids :
       \E body \in [1..n -> DomInner \cup DomOuter] :
         Applied("unwrapNestedSameTags", body, unwrapNestedSameTags(body))

\* the store the migration starts against: one page in space 10
ExistingPage ==
  [space |-> "10", title |-> "Existing", version |-> 1, body |-> Div(Text("old")),
   parentId |-> ""]

Init ==
  /\ impl \in {"pipeline", "index"}
  /\ upload \in {<<d>> : d \in Docs} \cup {<<>>}
  /\ dom \in IF impl = "index" THEN {FALSE} ELSE BOOLEAN
  /\ pages = <<ExistingPage>>
  /\ storage = <<>>
  /\ req = [s \in Slots |-> IdleReq]
  /\ prev = NoPrev
  /\ nreq = 0
  /\ call = NoCall

Next ==
  \/ migrateJsonToPage("A", SpaceIds, SpaceKeys, PageIds, {""})
  \/ getSpaceIdFromKey("A")
  \/ getOrCreatePage("A")
  \/ createPage("A")
  \/ getPageByIdAsApp("A")
  \/ getPageByIdAsUser("A")
  \/ updatePageAsApp("A")
  \/ updatePageAsUser("A")
  \/ storageGet("A")
  \/ storageSet("A")

Spec == Init /\ [][Next]_vars

\* migrations of a document with a forward reference, and calls of
\* ensurePageForItem between them
InitItems ==
  /\ impl \in {"pipeline", "index"}
  /\ upload \in {<<DocRef>>, <<DocTwice>>}
  /\ dom = FALSE
  /\ pages = <<ExistingPage>>
  /\ storage = <<>>
  /\ req = [s \in Slots |-> IdleReq]
  /\ prev = NoPrev
  /\ nreq = 0
  /\ call = NoCall

NextItems ==
  \/ migrateJsonToPage("A", SpaceIds, SpaceKeys, PageIds, {""})
  \/ ensurePageForItem("A", {"", "d2"}, SpaceIds, {"", "there"})
  \/ getSpaceIdFromKey("A")
  \/ getOrCreatePage("A")
  \/ createPage("A")
  \/ getPageByIdAsApp("A")
  \/ getPageByIdAsUser("A")
  \/ updatePageAsApp("A")
  \/ updatePageAsUser("A")
  \/ storageGet("A")
  \/ storageSet("A")

SpecItems == InitItems /\ [][NextItems]_vars

\* two invocations at a time: of the pipeline, migrations updating page 1 in
\* space 10; of index.js, calls of ensurePageForItem for item d2
TwoSlots == {"A", "B"}
InitTwo ==
  /\ impl \in {"pipeline", "index"}
  /\ upload = <<DocE2E>>
  /\ dom = FALSE
  /\ pages = <<ExistingPage>>
  /\ storage = <<>>
  /\ req = [s \in TwoSlots |-> IdleReq]
  /\ prev = NoPrev
  /\ nreq = 0
  /\ call = NoCall

NextTwo ==
  \E s \in TwoSlots :
    \/ migrateJsonToPage(s, {"10"}, {""}, IF impl = "pipeline" THEN {1} ELSE {}, {""})
    \/ ensurePageForItem(s, {"d2"}, {"10"}, {""})
    \/ createPage(s)
    \/ getPageByIdAsApp(s)
    \/ getPageByIdAsUser(s)
    \/ updatePageAsApp(s)
    \/ updatePageAsUser(s)
    \/ storageGet(s)
    \/ storageSet(s)

SpecTwo == InitTwo /\ [][NextTwo]_vars

\* Create-mode migrations of an upload into a space given by id, with and
\* without a createAsChildOf.
InitChild ==
  /\ impl \in {"pipeline", "index"}
  /\ upload = <<DocE2E>>
  /\ dom = FALSE
  /\ pages = <<ExistingPage>>
  /\ storage = <<>>
  /\ req = [s \in Slots |-> IdleReq]
  /\ prev = NoPrev
  /\ nreq = 0
  /\ call = NoCall

NextChild ==
  \/ migrateJsonToPage("A", {"10"}, {""}, {0}, {"", "1"})
  \/ createPage("A")
  \/ getPageByIdAsApp("A")
  \/ getPageByIdAsUser("A")
  \/ storageGet("A")
  \/ storageSet("A")

SpecChild == InitChild /\ [][NextChild]_vars

\* the utilities on their own: no request is running
InitFn ==
  /\ impl = "pipeline"
  /\ upload = <<>>
  /\ dom = FALSE
  /\ pages = <<ExistingPage>>
  /\ storage = <<>>
  /\ req = [s \in Slots |-> IdleReq]
  /\ prev = NoPrev
  /\ nreq = 0
  /\ call = NoCall

NextFn ==
  \/ CallBuildIdMap
  \/ CallExtractHtmlFromNode
  \/ CallLinkRewriter
  \/ CallBackfillValue
  \/ CallExtractHtmlOfTree
  \/ CallRemoveEmptyTags
  \/ CallUnwrapNestedSameTags
  \/ CallRewriteAround
  \/ CallFindItemById

SpecFn == InitFn /\ [][NextFn]_vars

(***************************************************************************)
(* Properties of migrateJsonToPage and of the store helpers.               *)
(***************************************************************************)
Log == R.log
Last == Log[Len(Log)]
IsEntry(e, op, who, status) == e.op = op /\ e.who = who /\ e.status = status

\* the invocation before this one updated the page this one is asked to update
SecondUpdate ==
  /\ prev.kind = "ok" /\ prev.action = "updated"
  /\ R.payload.pageId # 0 /\ prev.page = R.payload.pageId

\* C1: when migrateJsonToPage runs twice in sequence with the same pageId, the
\* second call sends version number (version stored after the first call) + 1
\* (as does every update: the version the store held when the call began, + 1),
\* after it the stored version is higher by exactly 1, and no call with a pageId
\* creates the main page: the only pages it adds are hub pages and the pages
\* of linked items.
C1_SecondUpdateBumpsVersionByOne ==
  LET pid == R.payload.pageId IN
  /\ \A i \in DOMAIN Log :
       (Log[i].op = "PUT" /\ Log[i].phase = "update")
         => /\ Log[i].id = pid
            /\ Log[i].number = prev.version + 1
  /\ (SecondUpdate /\ R.phase = "done" /\ R.resp.kind = "ok")
       => /\ R.resp = OkResp("updated", pid)
          /\ pages[pid].version = prev.version + 1
  /\ pid # 0
       => /\ \A i \in DOMAIN Log :
               Log[i].op = "POST" => /\ Log[i].phase \in {"shared", "links"}
                                     /\ Log[i].title # ReqTitle(R)
          /\ Len(pages) = prev.npages
               + Cardinality({i \in DOMAIN Log : IsEntry(Log[i], "POST", "asApp", 200)})

C1_Witness ==
  /\ SecondUpdate
  /\ R.phase = "done" /\ R.resp = OkResp("updated", 1)
  /\ prev.version = 2 /\ pages[1].version = 3

\* the app's GET was answered 404 and the user's GET that followed succeeded
UserGetSucceeded(i) ==
  /\ i + 1 \in DOMAIN Log
  /\ IsEntry(Log[i], "GET", "asApp", 404)
  /\ IsEntry(Log[i + 1], "GET", "asUser", 200)

\* the errors raised while the request logged at i was the last one made
ThrownAt(i) == {R.thrown[k].err : k \in {j \in DOMAIN R.thrown : R.thrown[j].at = i}}

\* C2: when the primary attempt of getPageById is answered 404 and the
\* secondary attempt succeeds, getPageById returns what the secondary attempt
\* read (the fetch of the page to update hands the handler the stored version,
\* the fetch of a linked item's page gets the item its link) and raises no
\* error, so the response is no {error} of this fetch.
C2_GetFallsBackToUser ==
  \A i \in DOMAIN Log :
    UserGetSucceeded(i)
      => /\ ThrownAt(i) = {} /\ ThrownAt(i + 1) = {}
         /\ R.resp.error.text # "GET page failed"
         /\ Log[i].phase = "update" => R.version = prev.version
         /\ Len(Log) = i + 1
              => /\ R.resp = NoResp
                 /\ IF Log[i].phase = "links"
                    THEN /\ R.mapping # <<>>
                         /\ R.mapping[Len(R.mapping)] = Log[i + 1].id
                    ELSE /\ R.version = pages[R.payload.pageId].version
                         /\ \/ R.phase = "update" /\ R.sub = "putApp"
                            \/ R.phase = "links" /\ R.sub = "storageGet"

C2_Witness ==
  /\ Len(Log) >= 2
  /\ UserGetSucceeded(Len(Log) - 1)
  /\ R.sub = "putApp" /\ R.version = 1

\* both attempts of a get or of an update failed: 404 for the app, then
\* anything but a success for the user
BothFailed(i) ==
  /\ i + 1 \in DOMAIN Log
  /\ Log[i].op \in {"GET", "PUT"} /\ Log[i].who = "asApp" /\ Log[i].status = 404
  /\ Log[i + 1].op = Log[i].op /\ Log[i + 1].who = "asUser"
  /\ Log[i + 1].status # 200

\* C3: when both attempts of getPageById or of updatePage fail, the one error
\* raised carries the status and body of the primary attempt, not of the
\* secondary one (and is the error of the response when it reaches the catch
\* of the handler).
C3_PrimaryErrorSurfaces ==
  \A i \in DOMAIN Log :
    BothFailed(i)
      => LET primary == HttpError(IF Log[i].op = "GET" THEN "GET page failed"
                                  ELSE "PUT page failed", Log[i].status, "asApp")
         IN /\ ThrownAt(i + 1) = {primary}
            /\ Log[i].phase # "links"
                 => /\ i + 1 = Len(Log)
                    /\ R.phase = "done"
                    /\ R.resp = ErrorResp(primary)

C3_Witness ==
  /\ Len(Log) >= 2
  /\ BothFailed(Len(Log) - 1)
  /\ Last.op = "PUT" /\ Last.status = 403
  /\ R.resp.error.status = 404

\* the four operations on pages: get, update, create, lookup by title
PageOps == {"GET", "PUT", "POST", "LOOKUP"}

\* the attempt logged at i was answered 404 and is retried once as the user:
\* the retry is the next entry, or is the request the handler is waiting on
RetriedAsUser(i) ==
  IF i < Len(Log)
  THEN /\ Log[i + 1].who = "asUser" /\ Log[i + 1].op = Log[i].op
       /\ Log[i + 1].id = Log[i].id
       /\ (i + 1 < Len(Log) => Log[i + 2].who # "asUser")
  ELSE R.sub = (IF Log[i].op = "GET" THEN "getUser" ELSE "putUser")

\* every attempt as the user retries the attempt as the app just before it,
\* which was answered 404
FirstAsApp ==
  \A i \in DOMAIN Log :
    Log[i].who = "asUser"
      => /\ i > 1
         /\ Log[i - 1].who = "asApp" /\ Log[i - 1].status = 404
         /\ Log[i - 1].op = Log[i].op /\ Log[i - 1].id = Log[i].id

\* C4 as stated: every get, update, create and lookup by title is first
\* attempted as the app and, when answered 404, retried once as the user.
C4_EveryOpRetriedAsUser ==
  /\ FirstAsApp
  /\ \A i \in DOMAIN Log :
       (Log[i].op \in PageOps /\ Log[i].who = "asApp" /\ Log[i].status = 404)
         => RetriedAsUser(i)

\* C4: every get, update, create and lookup by title is first attempted as the
\* app; a 404 is retried once as the user for get and update only: a create or
\* a lookup by title is sent as the app alone, and its 404 is followed by no
\* attempt as the user.
C4_GetAndUpdateRetriedAsUser ==
  /\ FirstAsApp
  /\ \A i \in DOMAIN Log :
       /\ (Log[i].op \in {"GET", "PUT"} /\ Log[i].who = "asApp" /\ Log[i].status = 404)
            => RetriedAsUser(i)
       /\ Log[i].op \in {"POST", "LOOKUP"}
            => /\ Log[i].who = "asApp"
               /\ Log[i].status = 404 => ~RetriedAsUser(i)
               /\ (Log[i].status = 404 /\ i = Len(Log))
                    => /\ R.sub \notin {"getUser", "putUser"}
                       /\ Log[i].op = "LOOKUP" => R.sub = "create"
                       /\ (Log[i].op = "POST" /\ Log[i].phase # "links")
                            => R.phase = "done" /\ R.resp.kind = "error"

C4_Witness ==
  /\ Len(Log) >= 2
  /\ IsEntry(Log[Len(Log) - 1], "PUT", "asApp", 404)
  /\ IsEntry(Last, "PUT", "asUser", 200)
  /\ R.resp.kind = "ok"

\* processSharedContent has returned to the handler
SharedPassed ==
  \/ R.phase \in {"update", "placeholder", "backfill", "create"}
  \/ R.phase = "done" /\ R.resp.kind = "ok"

\* the title lookups of processSharedContent were all answered
SharedLookupsAnswered ==
  \A i \in DOMAIN Log :
    (Log[i].op = "LOOKUP" /\ Log[i].phase = "shared") => Log[i].status = 200

\* the titles two or more SharedParagraph nodes of the tree carry
RepeatedTitles ==
  LET calls == ReqSharedCalls(R) IN
  {calls[i].title : i \in {j \in DOMAIN calls :
      /\ calls[j].hub = "shared"
      /\ \E k \in DOMAIN calls : k # j /\ calls[k].hub = "shared"
                                  /\ calls[k].title = calls[j].title}}

\* the requests of processSharedContent for a title in the shared hub
SharedRequests(op, title) ==
  {i \in DOMAIN Log : /\ Log[i].op = op /\ Log[i].phase = "shared"
                      /\ Log[i].title = title /\ Log[i].space = R.spHub}

\* a page of that title was in the hub space when the invocation began (no
\* update has renamed a page since)
HeldAtStart(title) ==
  \E p \in 1..prev.npages : pages[p].space = R.spHub /\ pages[p].title = title

NoUpdateYet == \A i \in DOMAIN Log : ~(Log[i].op = "PUT" /\ Log[i].status = 200)

\* C5 as stated: one run of processSharedContent over a tree with a repeated
\* ParagraphTitle, against a store whose lookup reflects earlier creates,
\* issues exactly one create for that title in the hub space.
C5_ExactlyOneCreatePerTitle ==
  (SharedPassed /\ SharedLookupsAnswered)
    => \A t \in RepeatedTitles : Cardinality(SharedRequests("POST", t)) = 1

\* C5: such a run issues exactly one create for the repeated title when the
\* hub space held no page of that title at the start of the run and none when
\* it held one; every occurrence after the first finds the page and reuses it.
C5_OneCreateUnlessPageHeld ==
  (SharedPassed /\ SharedLookupsAnswered /\ NoUpdateYet)
    => \A t \in RepeatedTitles :
         /\ Cardinality(SharedRequests("POST", t))
              = (IF HeldAtStart(t) THEN 0 ELSE 1)
         /\ Cardinality(SharedRequests("LOOKUP", t)) >= 2
         /\ \A i \in SharedRequests("POST", t) :
              Cardinality({j \in SharedRequests("LOOKUP", t) : j < i}) = 1

C5_Witness ==
  /\ SharedPassed /\ SharedLookupsAnswered /\ NoUpdateYet
  /\ "SP" \in RepeatedTitles
  /\ ~HeldAtStart("SP")
  /\ Cardinality(SharedRequests("POST", "SP")) = 1
  /\ Cardinality(SharedRequests("LOOKUP", "SP")) = 2

\* the invocation returned ok: the page it published
Published == pages[R.resp.page]
ReturnedOk == R.phase = "done" /\ R.resp.kind = "ok"
Holds(body, k, title) == \E j \in DOMAIN body : body[j].k = k /\ title \in {body[j].a, body[j].b}

\* C6: for every SharedParagraph or Image node of the input tree, the markup
\* finally published for the main page contains an include construct pointing
\* at the node's hub page.
C6_MainPageIncludesHubPages ==
  ReturnedOk
    => \A i \in DOMAIN ReqSharedCalls(R) :
         Holds(Published.body, "include", ReqSharedCalls(R)[i].title)

\* the node a forward reference stands for: by id, else by title
Referenced(json, anchor) ==
  IF findItemById(json, anchor) # <<>> THEN findItemById(json, anchor)
  ELSE findByTitle(json, anchor)

HoldsMarker(body) ==
  \E j \in DOMAIN body : body[j] = PlaceholderMarker[2]

\* C7: when a create-mode migration returns ok, every page it created as the
\* target of a forward reference to a node of the input tree no longer holds
\* the placeholder marker.
C7_NoPlaceholderLeftBehind ==
  (ReturnedOk /\ R.resp.action = "created")
    => \A i \in DOMAIN Log :
         (/\ IsEntry(Log[i], "POST", "asApp", 200) /\ Log[i].phase = "placeholder"
          /\ Referenced(KnosysJson(R.payload), Log[i].title) # <<>>)
           => ~HoldsMarker(pages[Log[i].id].body)

\* C8: migrating the end-to-end document to space 10 (through the pipeline,
\* whose stages build page links) returns 'created' for a
\* page titled Home whose body holds a page link to OtherDoc and no raw anchor,
\* and afterwards a page titled OtherDoc exists in space 10.
C8_EndToEnd ==
  (/\ ReturnedOk /\ upload = <<DocE2E>> /\ R.impl = "pipeline"
   /\ R.payload.pageId = 0 /\ R.spaceId = "10")
    => /\ R.resp.action = "created"
       /\ Published.title = "Home" /\ Published.space = "10"
       /\ \/ Holds(Published.body, "pagelink", "OtherDoc")
          \/ Holds(Published.body, "domlink", "OtherDoc")
       /\ \A j \in DOMAIN Published.body : Published.body[j].k # "a"
       /\ StoreFind(pages, "10", "OtherDoc") # {}

\* a store call whose outcome is an error raised where it was made
Raised(e) ==
  \/ e.status = 0 /\ e.who # "storage"
  \/ e.op = "POST" /\ e.status # 200
  \/ e.op \in {"GET", "PUT"} /\ e.who = "asApp" /\ e.status \notin {200, 404}
  \/ e.who = "asUser" /\ e.status # 200

\* the store calls one invocation can make at most
CallBudget(r) ==
  3 + 2 * Len(ReqSharedCalls(r)) + 2 * Len(ReqPlaceholderCalls(r))
    + 4 * Len(ReqBackfillCalls(r)) + 5 * Len(ReqLinks(r)) + 4

\* a store call of the running invocation is answered
Answered ==
  \/ getSpaceIdFromKey("A") \/ getOrCreatePage("A") \/ createPage("A")
  \/ getPageByIdAsApp("A") \/ getPageByIdAsUser("A")
  \/ updatePageAsApp("A") \/ updatePageAsUser("A")
  \/ storageGet("A") \/ storageSet("A")

\* the invocation terminates (it can always go on, and makes a bounded number
\* of store calls) with exactly one response, {ok, action 'created' or
\* 'updated', page} or {error: message}: no error escapes the handler
OneResponse ==
  /\ Busy(R) => /\ R.resp = NoResp
                /\ ENABLED Answered
                /\ Len(Log) < CallBudget(R)
  /\ R.phase = "done"
       => /\ R.sub = ""
          /\ R.resp.kind \in {"ok", "error"}
          /\ R.resp.kind = "ok"
               => /\ R.resp.action = (IF R.payload.pageId # 0 THEN "updated" ELSE "created")
                  /\ PageExists(pages, R.resp.page)
                  /\ R.resp.error = NoError
          /\ R.resp.kind = "error"
               => /\ R.resp.error.text # ""
                  /\ R.resp.action = "" /\ R.resp.page = 0

\* the error thrown[k] ended the invocation as its {error} response
BecameResponse(k) ==
  /\ k = Len(R.thrown)
  /\ R.phase = "done"
  /\ R.resp = ErrorResp(R.thrown[k].err)

C10_MissingJsonRejected ==
  (R.phase = "done" /\ R.payload.json = <<>>)
    => /\ R.resp.kind = "error"
       /\ Len(pages) = prev.npages
       /\ \A i \in DOMAIN Log : ~(Log[i].op \in {"POST", "PUT"} /\ Log[i].status = 200)

\* no spaceId came with the payload and no spaceKey resolved to one
NoSpace == R.phase # "idle" /\ R.payload.spaceId = "" /\ R.spaceId = ""

\* C11: when the payload gives no spaceId and its spaceKey (if any) resolves to
\* no space, the request returns {error} and has written nothing: no create
\* and no update reached the page store, no set reached the item mapping; the
\* only request it ever made is the resolution of the key.
C11_NoSpaceNoWrite ==
  NoSpace
    => /\ \A i \in DOMAIN Log : Log[i].op = "SPACE" /\ Log[i].phase = "space"
       /\ Len(Log) <= 1
       /\ Len(pages) = prev.npages
       /\ R.phase = "done" => R.resp.kind = "error" /\ R.resp.error.text # ""
       /\ R.phase # "done" => R.phase = "space" /\ Log = <<>>

\* the key was looked up, the store answered with no space, {error} came back
C11_Witness ==
  /\ NoSpace /\ R.phase = "done" /\ R.payload.spaceKey = "K"
  /\ Len(Log) = 1 /\ IsEntry(Last, "SPACE", "asApp", 404)
  /\ R.resp.kind = "error"

Writes == {"POST", "PUT"}

\* the pages the invocation created are in the store as it created them
NoRollback ==
  /\ R.phase # "idle"
       => Len(pages) = prev.npages
            + Cardinality({i \in DOMAIN Log : IsEntry(Log[i], "POST", "asApp", 200)})
  /\ \A i \in DOMAIN Log :
       IsEntry(Log[i], "POST", "asApp", 200)
         => PageExists(pages, Log[i].id) /\ pages[Log[i].id].title = Log[i].title

\* C12 as stated: once any store call of a request fails (raises its error),
\* no further write is issued to the page store and the request returns
\* {error}; the pages committed before stay.
C12_NoWriteAfterFailure ==
  /\ NoRollback
  /\ \A i \in DOMAIN Log :
       Raised(Log[i])
         => /\ \A j \in DOMAIN Log : j > i => Log[j].op \notin Writes
            /\ R.phase = "done" => R.resp.kind = "error"

\* C12: once a stage or store call raises an error no later stage runs: no
\* further request of any kind is made, the request returns that error, and
\* the pages committed before stay; except that in index.js an error raised
\* while the page of a linked item is created or fetched is caught per id, and
\* the pages of the next ids and the main page are still written.
C12_AbortAfterRaisedError ==
  /\ NoRollback
  /\ \A k \in DOMAIN R.thrown :
       R.thrown[k].phase # "links"
         => /\ k = Len(R.thrown)
            /\ Len(Log) = R.thrown[k].at
            /\ R.phase = "done" /\ R.resp = ErrorResp(R.thrown[k].err)
  /\ \A i \in DOMAIN Log :
       (Raised(Log[i]) /\ Log[i].phase # "links")
         => /\ i = Len(Log)
            /\ R.thrown # <<>> /\ R.thrown[Len(R.thrown)].at = i

\* a hub page was created, then the create of the main page failed
C12_Witness ==
  /\ R.phase = "done" /\ R.resp.kind = "error"
  /\ Len(Log) >= 2 /\ Last.op = "POST" /\ Last.phase = "create" /\ Last.status = 404
  /\ \E i \in DOMAIN Log : IsEntry(Log[i], "POST", "asApp", 200) /\ Log[i].phase = "shared"
  /\ Len(pages) > prev.npages

\* the lookups by title and the item mapping answered every request of the
\* invocation
ConsistentStores ==
  \A i \in DOMAIN Log : Log[i].op \in {"LOOKUP", "SGET", "SSET"} => Log[i].status = 200

\* C13: when a request that answered ok is run again with the same payload,
\* lookups by title and the item mapping answering, the second run creates no
\* page: the store holds as many pages after it as before.
C13_RerunCreatesNoPage ==
  (prev.rerun /\ R.payload.json # <<>> /\ R.phase = "done" /\ ConsistentStores)
    => /\ Len(pages) = prev.npages
       /\ \A i \in DOMAIN Log : ~IsEntry(Log[i], "POST", "asApp", 200)

\* the positions in all (a tree in depth-first pre-order) of the nodes carrying id
Carrying(all, id) == {i \in DOMAIN all : all[i].detail /\ all[i].id = id}

\* C14: the key set of buildIdMap(tree) is exactly the set of non-empty
\* detail.id values of the tree, and each key maps to the last node carrying
\* it in depth-first pre-order.
C14_BuildIdMapLastWins ==
  call.op = "buildIdMap"
    => LET all == PreOrder(call.in) IN
       /\ DOMAIN call.out
            = {all[i].id : i \in {j \in DOMAIN all : all[j].detail /\ all[j].id # ""}}
       /\ \A id \in DOMAIN call.out :
            LET at == Carrying(all, id) IN
            \E i \in at : call.out[id] = all[i] /\ \A j \in at : j <= i

\* id a sits on the root, on a child and on a later child's child: the map
\* holds the last of the three
C14_Witness ==
  /\ call.op = "buildIdMap"
  /\ Cardinality(Carrying(PreOrder(call.in), "a")) = 3
  /\ call.in.id = "a" /\ Len(call.in.children) = 2
  /\ call.out["a"].title = "z"
  /\ "b" \in DOMAIN call.out

\* the values of the fields called name that have one
ValuesOf(fields, name) ==
  {fields[i].value : i \in {j \in DOMAIN fields : fields[j].name = name}} \ {<<>>}

\* the node holds a LinkText and a HiddenText field, each with a value
HasPair(fields) == ValuesOf(fields, "LinkText") # {} /\ ValuesOf(fields, "HiddenText") # {}

\* the places of html where the expand macro of title and body stands
ExpandAt(html, title, body) ==
  LET macro == ExpandMacro(title, body) IN
  {i \in DOMAIN html : /\ i + Len(macro) - 1 <= Len(html)
                        /\ SubSeq(html, i, i + Len(macro) - 1) = macro}

C16_DocumentTitleFirst ==
  (call.op = "insertAnchorLinksToPages" /\ call.in.type = "Document")
    => /\ Len(call.out) = 1 /\ call.out[1].k = "pagelink"
       /\ call.out[1].a = FirstNonEmpty(<<IF call.in.docTitle = "none" THEN ""
                                           ELSE call.in.docTitle,
                                          call.in.title, call.in.text, call.in.id>>)

\* the write of the main page is the next request to the store
MainWriteDue ==
  \/ R.phase = "create" /\ R.sub = "create"
  \/ R.phase = "update" /\ R.sub \in {"putApp", "putUser"}

\* the titles the page links of a body point at
LinkedTitles(body) == {body[i].a : i \in {j \in DOMAIN body : body[j].k = "pagelink"}}

\* a page titled title is in the target space, and the invocation created it
\* or found it by lookup
LinkedPageReady(title) ==
  /\ StoreFind(pages, R.spaceId, title) # {}
  /\ \E i \in DOMAIN Log :
       /\ Log[i].title = title /\ Log[i].space = R.spaceId
       /\ \/ IsEntry(Log[i], "POST", "asApp", 200)
          \/ IsEntry(Log[i], "LOOKUP", "asApp", 200)

\* C17: whenever the main page is written (created or updated) with a body
\* holding a page link made from an anchor reference, a page with the linked
\* title is in the target space when the write is issued: the invocation
\* created it as a placeholder or found it by lookup before.
C17_LinkedPageExistsAtWrite ==
  MainWriteDue => \A title \in LinkedTitles(ReqFinalHtml(R)) : LinkedPageReady(title)

\* C18: in phase 2 the content written to a referenced node's page is the
\* concatenated field values of the node reached from the referenced node by
\* stepping to the first child with a non-empty fields list (else the first
\* child) until a node without children is reached.
C18_ContentOfDeepestChild ==
  call.op = "backfillValue" => call.out = JoinValues(DeepestChild(call.in).fields)

\* a body as the placeholder of a page to come: the marker of the pipeline, the
\* text of ensurePageForItem
IsPlaceholder(body) == HoldsMarker(body) \/ body = Div(ToBeMigrated)

\* the invocation is about to create the page of a referenced document: in the
\* placeholder loop of the pipeline, for an item of replaceItemLinksWithWebui,
\* for the item of ensurePageForItem
PlaceholderDue == R.phase \in {"placeholder", "links", "ensure"} /\ R.sub = "create"

\* no page is removed, and no page that was populated holds the placeholder
\* again
NeverBackToPlaceholder ==
  /\ Len(pages') >= Len(pages)
  /\ \A p \in DOMAIN pages : ~IsPlaceholder(pages[p].body) => ~IsPlaceholder(pages'[p].body)

\* the target document has its page: one of its title in the target space, or
\* one the item mapping points at
HasPage ==
  \/ StoreFind(pages, CurrentCall(R).space, CurrentCall(R).title) # {}
  \/ R.phase # "placeholder" /\ CurrentItem(R) \in DOMAIN storage

\* C19 as stated: the state of a target document's page only moves forward
\* (Unpublished, PlaceholderCreated, Populated) over any sequence of migration
\* requests and ensurePageForItem calls: a populated page is never overwritten
\* with the placeholder and an existing page is never created again as a
\* placeholder.
C19_NeverCreatedAgain ==
  [][/\ NeverBackToPlaceholder
     /\ (PlaceholderDue /\ Len(pages') > Len(pages)) => ~HasPage]_vars

\* C19: no page is removed and a populated page never holds the placeholder
\* again; a page is created for a referenced document only after the lookup
\* for it (by title in the pipeline, in the item mapping in index.js) and,
\* when that lookup was answered, only if it reported none: by title no page
\* of the title is in the target space, in the mapping the item has no entry.
C19_CreatedAgainOnlyUnseen ==
  [][/\ NeverBackToPlaceholder
     /\ (PlaceholderDue /\ Len(pages') > Len(pages))
          => /\ Log # <<>> /\ Last.op \in {"LOOKUP", "SGET"}
             /\ Last.title = (IF R.phase = "placeholder" THEN CurrentCall(R).title
                               ELSE CurrentItem(R))
             /\ Last.status = 200
                  => IF R.phase = "placeholder"
                     THEN StoreFind(pages, CurrentCall(R).space, CurrentCall(R).title) = {}
                     ELSE CurrentItem(R) \notin DOMAIN storage]_vars

\* ensurePageForItem after a migration that created the item's page: the
\* mapping is read and the page of the item is returned, none is created
C19_Witness ==
  /\ R.phase = "done" /\ R.payload.itemId = "d2" /\ R.resp = OkResp("ensured", 2)
  /\ prev.kind = "ok" /\ prev.action = "created"
  /\ Len(Log) = 1 /\ IsEntry(Last, "SGET", "storage", 200)
  /\ IsPlaceholder(pages[2].body) /\ Len(pages) = prev.npages

\* the next request to the store is an update
UpdateDue == R.sub \in {"putApp", "putUser"}

\* the page was read earlier in the invocation: fetched by id, found by the
\* lookup of its title, or returned by the POST that created it
ReadBefore(id, title) ==
  \E j \in DOMAIN Log :
    \/ Log[j].op = "GET" /\ Log[j].status = 200 /\ Log[j].id = id
    \/ IsEntry(Log[j], "LOOKUP", "asApp", 200) /\ Log[j].title = title
    \/ IsEntry(Log[j], "POST", "asApp", 200) /\ Log[j].id = id

\* C20: every update sent to the page store, the backfill updates of
\* referenced pages included, carries the version number the store holds for
\* the page + 1, that version having been read from the store earlier in the
\* same invocation; no update is answered with a version conflict.
C20_UpdateCarriesStoredVersionPlusOne ==
  /\ UpdateDue
       => LET bodyData == CurrentUpdate(R) IN
          /\ PageExists(pages, bodyData.id)
          /\ bodyData.number = pages[bodyData.id].version + 1
          /\ ReadBefore(bodyData.id, bodyData.title)
  /\ \A i \in DOMAIN Log : Log[i].op = "PUT" => Log[i].status # 409

\* a backfill update of a page an earlier migration had already updated
C20_Witness ==
  /\ R.phase = "backfill" /\ UpdateDue
  /\ IsEntry(Last, "LOOKUP", "asApp", 200)
  /\ pages[R.found].version = 2 /\ CurrentUpdate(R).number = 3

\* the invocation in slot s has read the version of the page it updates
HasRead(s) ==
  /\ req[s].phase \in {"update", "done"} /\ req[s].payload.pageId # 0
  /\ \E i \in DOMAIN req[s].log : req[s].log[i].op = "GET" /\ req[s].log[i].status = 200

\* the updates of slot s the store accepted
Accepted(r) == {i \in DOMAIN r.log : r.log[i].op = "PUT" /\ r.log[i].status = 200}

\* the invocation of slot s has just had an update of page p accepted
AcceptedNow(s, p) ==
  /\ Len(req'[s].log) = Len(req[s].log) + 1
  /\ LET e == req'[s].log[Len(req'[s].log)] IN
       e.op = "PUT" /\ e.status = 200 /\ e.id = p

\* C21: with two migration requests updating the same page at a time, the
\* store rejecting an update whose number is not its version + 1: the stored
\* version never decreases and grows by exactly 1 with each accepted update;
\* when both requests have read the same version at most one update is
\* accepted, and the other request returns {error}, not {ok, 'updated'}.
C21_OneOfTwoUpdatesAccepted ==
  /\ [][\A p \in DOMAIN pages :
          /\ pages'[p].version \in {pages[p].version, pages[p].version + 1}
          /\ (pages'[p].version = pages[p].version + 1)
               <=> (\E s \in DOMAIN req : AcceptedNow(s, p))]_vars
  /\ [](\A s, o \in DOMAIN req :
          (/\ s # o /\ HasRead(s) /\ HasRead(o)
           /\ req[s].payload.pageId = req[o].payload.pageId
           /\ req[s].version = req[o].version)
            => /\ Accepted(req[s]) = {} \/ Accepted(req[o]) = {}
               /\ (Accepted(req[o]) # {} /\ req[s].phase = "done")
                    => req[s].resp.kind = "error")

\* both read version 1; the update of one was accepted, the other was
\* answered 409 and returned {error}
C21_Witness ==
  /\ HasRead("A") /\ HasRead("B") /\ req["A"].version = 1 /\ req["B"].version = 1
  /\ req["A"].resp = OkResp("updated", 1) /\ pages[1].version = 2
  /\ req["B"].phase = "done" /\ req["B"].resp.kind = "error"
  /\ \E i \in DOMAIN req["B"].log :
       req["B"].log[i].op = "PUT" /\ req["B"].log[i].status = 409

\* the requests of the invocation for item id: reads of its mapping, creates
\* of its page
ItemRequests(op, id) ==
  {i \in DOMAIN Log :
     /\ Log[i].op = op /\ Log[i].phase = "links"
     /\ Log[i].title = (IF op = "SGET" THEN id ELSE MigratedItem(id))}

\* the anchors of the extracted markup that reference item id
AnchorsTo(id) ==
  {i \in DOMAIN R.my.htmlBody : R.my.htmlBody[i].k = "a" /\ R.my.htmlBody[i].a = id}

\* C22: within one migration request of index.js each distinct item id
\* referenced in the markup is processed once (its mapping is read once), so
\* at most one create of a placeholder page is issued for it, however many
\* anchors reference it.
C22_OneCreatePerItemId ==
  (R.impl = "index" /\ R.payload.itemId = "")
    => \A id \in {"d2", "d3"} :
         /\ Cardinality(ItemRequests("SGET", id)) <= 1
         /\ Cardinality(ItemRequests("POST", id)) <= 1
         /\ AnchorsTo(id) = {} => ItemRequests("SGET", id) = {}

\* two anchors reference d2; its page was created by the one create issued
C22_Witness ==
  /\ R.impl = "index" /\ R.payload.itemId = "" /\ R.phase = "done" /\ R.resp.kind = "ok"
  /\ Cardinality(AnchorsTo("d2")) = 2
  /\ Cardinality(ItemRequests("POST", "d2")) = 1
  /\ Cardinality(ItemRequests("SGET", "d2")) = 1

\* the call of ensurePageForItem in slot s found no page mapped to its item
ReadUnmapped(s) ==
  /\ req[s].payload.itemId # "" /\ req[s].log # <<>>
  /\ req[s].log[1].op = "SGET" /\ req[s].log[1].status = 200 /\ req[s].log[1].id = 0

EnsuredOk(s) == req[s].phase = "done" /\ req[s].resp.kind = "ok"

\* C23: at most one create per item id does not hold across concurrent
\* requests: when two calls of ensurePageForItem for the same unmapped item
\* have both read the mapping before either wrote it and both return ok, each
\* has created a page of its own, and the mapping points at one of the two.
C23_BothCreateOneMapped ==
  \A s, o \in DOMAIN req :
    (/\ s # o /\ ReadUnmapped(s) /\ ReadUnmapped(o)
     /\ req[s].payload.itemId = req[o].payload.itemId
     /\ EnsuredOk(s) /\ EnsuredOk(o))
      => LET p == req[s].resp.page
             q == req[o].resp.page
         IN /\ p # q /\ PageExists(pages, p) /\ PageExists(pages, q)
            /\ pages[p].title = pages[q].title /\ pages[p].body = Div(ToBeMigrated)
            /\ pages[q].body = Div(ToBeMigrated)
            /\ req[s].payload.itemId \in DOMAIN storage
                 => storage[req[s].payload.itemId] \in {p, q}

\* both calls read the mapping, then both created a page and wrote the
\* mapping: pages 2 and 3 stand for item d2, the mapping points at page 2
C23_Witness ==
  /\ ReadUnmapped("A") /\ ReadUnmapped("B") /\ EnsuredOk("A") /\ EnsuredOk("B")
  /\ req["A"].resp.page = 2 /\ req["B"].resp.page = 3
  /\ Len(pages) = 3 /\ pages[2].title = pages[3].title
  /\ storage = StorageSet(<<>>, "d2", 2)

\* the values of a node's fields, in field order
OwnValues(n) == Concat([i \in 1..Len(n.fields) |-> n.fields[i].value])

RECURSIVE Elements(_)
Elements(childNodes) ==
  Concat([i \in 1..Len(childNodes) |->
    IF childNodes[i].tag = "#text" THEN <<>>
    ELSE <<childNodes[i]>> \o Elements(childNodes[i].kids)])

\* a node that is not empty: visible text, a void element, or an element
\* holding a node that is not empty
RECURSIVE NonEmpty(_)
NonEmpty(n) ==
  IF n.tag = "#text" THEN HasText(n)
  ELSE n.tag \in VOID_TAGS \/ \E i \in DOMAIN n.kids : NonEmpty(n.kids[i])

\* C25: after the empty-element pruning pass of colorFormatter the tree holds
\* no non-void element without visible text and without a non-empty child
\* node; an element whose only children were empty elements is removed too.
C25_NoEmptyElementLeft ==
  call.op = "removeEmptyTags"
    => \A i \in DOMAIN Elements(call.out) : NonEmpty(Elements(call.out)[i])

\* C26: the redundant-wrapper collapse of colorFormatter terminates, after
\* no more passes than the document has elements plus one, and then no
\* element is left whose only element child has its own tag.
C26_UnwrapReachesFixedPoint ==
  call.op = "unwrapNestedSameTags"
    => LET all == Elements(call.out.out) IN
       /\ call.out.passes <= Len(Elements(call.in)) + 1
       /\ \A i \in DOMAIN all :
            ~(Len(Children(all[i])) = 1 /\ Children(all[i])[1].tag = all[i].tag)
       /\ Len(all) <= Len(Elements(call.in))

\* three divs, one inside the other, around a text: two passes unwrap them,
\* a third finds nothing to do
C26_Witness ==
  /\ call.op = "unwrapNestedSameTags"
  /\ call.in = <<DomElem("div", <<DomElem("div", <<DomElem("div", <<>>), DomText("t")>>)>>)>>
  /\ call.out = [out |-> <<DomElem("div", <<DomText("t")>>)>>, passes |-> 3]

\* C27: when a create-mode migration request supplies createAsChildOf, the
\* create issued for the main page carries it as the parent id; when it
\* supplies none, the create carries no parent id.
C27_CreateCarriesParent ==
  (R.phase = "done" /\ R.resp.kind = "ok" /\ R.resp.action = "created")
    => pages[R.resp.page].parentId = R.payload.createAsChildOf

\* the nodes of a tree that carry the id, and the anchors of a markup no
\* rewriter may touch: the id is on no node, or on a node that is neither a
\* Document nor a Link with a URL field
NodesWithId(data, id) ==
  {i \in DOMAIN PreOrder(data) : PreOrder(data)[i].id = id}
HasUrlField(n) == \E i \in DOMAIN n.fields : n.fields[i].name = "URL"
Unresolved(t, data) ==
  /\ t.k = "a"
  /\ \A i \in NodesWithId(data, t.a) :
       LET n == PreOrder(data)[i] IN
       /\ n.itemType # "Document"
       /\ ~(n.itemType = "Link" /\ HasUrlField(n))
RewriterCalled ==
  call.op \in {"insertAnchorLinksToPages", "rewriteInternalLinks", "rewriteHiddenLinks"}
    /\ "html" \in DOMAIN call.in

\* C28: insertAnchorLinksToPages and rewriteInternalLinks leave unchanged
\* every anchor whose data-itemid is on no node of the tree or on a node that
\* is neither a Document nor a Link with a URL field, and a second
\* rewriteInternalLinks (rewriteHiddenLinks) returns its input as it is.
C28_UnresolvedAnchorKept ==
  RewriterCalled =>
    /\ Len(call.out) = Len(call.in.html)
    /\ \A i \in DOMAIN call.in.html :
         Unresolved(call.in.html[i], call.in.data) => call.out[i] = call.in.html[i]
    /\ call.op = "rewriteHiddenLinks" => call.out = call.in.html

\* rewriteHiddenLinks got markup in which rewriteInternalLinks had left an
\* anchor to a Paragraph next to a page link, and returned it unchanged
C28_Witness ==
  /\ call.op = "rewriteHiddenLinks"
  /\ call.in.html = <<Tok("pagelink", "Home", "K", "Home"), Tok("a", "d2", "there", "")>>
  /\ call.in.data = UrlNode("Paragraph", "none")
  /\ call.out = call.in.html

\* C29: for every id present in the tree, findItemById resolves the node
\* that buildIdMap holds for that id, also when several nodes carry the id.
C29_SameNodeBothWays ==
  (call.op = "findItemById" /\ Carrying(PreOrder(call.in.data), call.in.id) # {})
    => /\ call.out.item # <<>>
       /\ call.out.item = call.out.mapped

\* an ensurePageForItem call with an itemId and a spaceId has returned, after
\* a call of ensurePageForItem that returned a page
EnsureReturned ==
  R.phase = "done" /\ R.payload.itemId # "" /\ R.payload.spaceId # ""
AfterEnsured == prev.kind = "ok" /\ prev.action = "ensured"
Posted == {i \in DOMAIN Log : IsEntry(Log[i], "POST", "asApp", 200)}

\* C30 as stated: over a sequence of non-overlapping ensurePageForItem calls
\* with the same itemId at most one page is created and every successful call
\* returns the same pageId, also when a read or a write of the mapping store
\* fails.
C30_OnePageForItem ==
  (EnsureReturned /\ AfterEnsured /\ R.resp.kind = "ok")
    => R.resp.page = prev.page /\ Len(pages) = prev.npages

\* C30: a failed read or write of the mapping store is never raised: the call
\* returns a page whenever the mapping was read or the create was answered
\* with an id, and creates at most one page.  A call that follows a
\* successful one returns the same pageId and creates no page when its
\* storage.get answers and the mapping holds the page the call before it
\* returned.
C30_SamePageWhileMappingAnswers ==
  EnsureReturned
    => /\ Len(Log) >= 1 /\ Log[1].op = "SGET"
       /\ Len(pages) <= prev.npages + 1
       /\ R.resp.kind = "ok"
            <=> \/ Log[1].status = 200 /\ Log[1].id # 0
                \/ Posted # {}
       /\ (AfterEnsured /\ Log[1].status = 200 /\ Log[1].id = prev.page)
            => /\ R.resp = OkResp("ensured", prev.page)
               /\ Len(pages) = prev.npages

\* the first call created page 2 and stored the mapping, the second call
\* read the mapping and returned page 2
C30_Witness ==
  /\ EnsureReturned /\ AfterEnsured /\ prev.page = 2 /\ prev.npages = 2
  /\ Log = <<LogEntry("SGET", "storage", [phase |-> "ensure"], 2, "", "d2", 200, 0)>>
  /\ R.resp = OkResp("ensured", 2) /\ Len(pages) = 2
  /\ storage = StorageSet(<<>>, "d2", 2)

====
